---- MODULE Spec2Model ----
(***************************************************************************)
(* The text/video rendezvous of GstBaseTextOverlay (gstbasetextoverlay.c): *)
(* the one-item pending slot text_buffer, the text and video chain         *)
(* functions, the pad event handlers and the element state changes.        *)
(* Every section of code that runs with the overlay mutex held is one      *)
(* atomic action; g_cond_wait splits a chain function into two actions.    *)
(***************************************************************************)
EXTENDS Integers, Sequences, FiniteSets, TLC

(* ------------------------------ bounds --------------------------------- *)
\* number of inputs the environment hands to the element: text buffers, video
\* buffers, pad events, property writes, pad unlinks and PAUSED->READY changes
MaxInputs == 3

(* --------------------------- program constants ------------------------- *)
\* GST_CLOCK_TIME_NONE is the all-ones guint64: it compares above every valid
\* time.  The model uses a value above every time it can compute.
GST_CLOCK_TIME_NONE == 1000000

\* the NULL pointer; buffers and images are records, and so is NULL
NULL == [null |-> TRUE]
DEFAULT_PROP_SILENT == FALSE
DEFAULT_PROP_WAIT_TEXT == TRUE
\* what an image was rendered from: the default text, or a text buffer
DefaultText == [text |-> "default"]
BufferText(buffer) == [text |-> "buffer", id |-> buffer.id]
\* the value of returned when the last step returned from no call
NoCall == [fn |-> "none"]

\* timestamps and durations the environment stamps on buffers
TextTimestamps == {0, 1, 2, GST_CLOCK_TIME_NONE}
TextDurations == {1, 2, GST_CLOCK_TIME_NONE}
VideoTimestamps == {0, 1, 2, GST_CLOCK_TIME_NONE}
VideoDurations == {1, 2, GST_CLOCK_TIME_NONE}
\* start and duration of GAP events
GapStarts == {1, 2}
GapDurations == {1, GST_CLOCK_TIME_NONE}
\* segments carried by SEGMENT events: rate 1, offset 0, position = start
SegmentStarts == {0, 1}
SegmentBases == {0, 1}
SegmentStops == {2, GST_CLOCK_TIME_NONE}
SegmentFormats == {"TIME", "BYTES"}

Min(a, b) == IF a < b THEN a ELSE b
Max(a, b) == IF a > b THEN a ELSE b

GST_CLOCK_TIME_IS_VALID(t) == t # GST_CLOCK_TIME_NONE

(* ----------------------------- GstSegment ------------------------------ *)
\* a gst_segment_init that leaves a position behind
gst_segment_init_keeps_position(format) ==
  [format |-> format, start |-> 0, stop |-> GST_CLOCK_TIME_NONE, position |-> 1,
   base |-> 0]

\* gst_segment_init (&seg, format)
gst_segment_init(format) ==
  [format |-> format, start |-> 0, stop |-> GST_CLOCK_TIME_NONE, position |-> 0,
   base |-> 0]

\* gst_segment_clip (segment, GST_FORMAT_TIME, start, stop, &clip_start, &clip_stop)
gst_segment_clip(segment, start, stop) ==
  IF segment.format # "TIME"
    THEN [in_seg |-> FALSE, clip_start |-> 0, clip_stop |-> 0]
  ELSE IF /\ segment.stop # GST_CLOCK_TIME_NONE
          /\ start # GST_CLOCK_TIME_NONE
          /\ \/ start > segment.stop
             \/ (segment.start # segment.stop /\ start = segment.stop)
    THEN [in_seg |-> FALSE, clip_start |-> 0, clip_stop |-> 0]
  ELSE IF /\ stop # GST_CLOCK_TIME_NONE
          /\ \/ stop < segment.start
             \/ (start # stop /\ stop = segment.start)
    THEN [in_seg |-> FALSE, clip_start |-> 0, clip_stop |-> 0]
  ELSE [in_seg |-> TRUE,
        clip_start |-> IF start = GST_CLOCK_TIME_NONE THEN GST_CLOCK_TIME_NONE
                       ELSE Max(start, segment.start),
        clip_stop |-> IF stop = GST_CLOCK_TIME_NONE THEN segment.stop
                      ELSE IF segment.stop = GST_CLOCK_TIME_NONE THEN stop
                      ELSE Min(stop, segment.stop)]

\* gst_segment_to_running_time (segment, GST_FORMAT_TIME, position), rate 1
gst_segment_to_running_time(segment, position) ==
  IF position = GST_CLOCK_TIME_NONE THEN GST_CLOCK_TIME_NONE
  ELSE IF segment.format # "TIME" THEN GST_CLOCK_TIME_NONE
  ELSE IF position < segment.start THEN GST_CLOCK_TIME_NONE
  ELSE IF segment.stop # GST_CLOCK_TIME_NONE /\ position > segment.stop
    THEN GST_CLOCK_TIME_NONE
  ELSE position - segment.start + segment.base

(* ------------------------------- state --------------------------------- *)
VARIABLES
  elem_state,      \* "READY", "PAUSED", or "PAUSED_TO_READY" (pads not yet deactivated)
  text_buffer,     \* overlay->text_buffer: NULL or [id, ts, dur]
  text_flushing, video_flushing, text_eos, video_eos,
  text_linked, silent, wait_text, has_default_text,
  need_render,     \* overlay->need_render
  text_image,      \* what overlay->text_image/composition was rendered from
  text_segment,    \* overlay->text_segment
  segment,         \* overlay->segment
  waiting,         \* threads blocked in g_cond_wait on overlay->cond
  tpc, tbuf,       \* text streaming thread: position in text_chain, its buffer
  vpc, vbuf,       \* video streaming thread: position in video_chain, its locals
                   \* and the id of the text buffer it has rendered (0: none)
  returned,        \* the call that returned in the last step, or NoCall
  unrefs,          \* text buffer id -> number of gst_buffer_unref calls on it
  out,             \* what was pushed on the source pad, in order
  ninputs,         \* number of inputs handed to the element so far
  unlocked,        \* the shared fields the last step read or wrote without
                   \* holding GST_BASE_TEXT_OVERLAY_LOCK
  call             \* a call of a function that has no part in the streaming:
                   \* its arguments and, once it has returned, its results

flags == <<text_flushing, video_flushing, text_eos, video_eos>>
config == <<text_linked, silent, wait_text, has_default_text>>
render == <<need_render, text_image>>
shared == <<text_buffer, text_flushing, video_flushing, text_eos, video_eos,
            text_linked, silent, wait_text, has_default_text, need_render,
            text_image, text_segment, segment>>
vars == <<elem_state, shared, waiting, tpc, tbuf, vpc, vbuf, returned, unrefs,
          out, ninputs, unlocked, call>>

\* gst_base_text_overlay_init
gst_base_text_overlay_init ==
  /\ elem_state = "READY"
  /\ text_buffer = NULL
  /\ text_flushing = FALSE /\ video_flushing = FALSE
  /\ text_eos = FALSE /\ video_eos = FALSE
  /\ text_linked = FALSE
  /\ silent = DEFAULT_PROP_SILENT
  /\ wait_text = DEFAULT_PROP_WAIT_TEXT
  /\ has_default_text = FALSE
  /\ need_render = TRUE
  /\ text_image = NULL
  /\ text_segment = [format |-> "UNDEFINED", start |-> 0, stop |-> 0,
                     position |-> 0, base |-> 0]
  /\ segment = gst_segment_init("TIME")
  /\ waiting = {}
  /\ tpc = "idle" /\ tbuf = NULL
  /\ vpc = "idle" /\ vbuf = NULL
  /\ returned = NoCall
  /\ unrefs = [i \in 1 .. MaxInputs |-> 0]
  /\ out = << >>
  /\ ninputs = 0
  /\ unlocked = {}

\* the element as constructed, with no other call under way
Init ==
  /\ gst_base_text_overlay_init
  /\ call = NoCall

\* the pads are active: buffers and events reach the chain and event functions
PadsActive == elem_state # "READY"

\* the environment hands one more input to the element
Input == ninputs < MaxInputs /\ ninputs' = ninputs + 1

\* gst_buffer_unref on a text buffer
gst_buffer_unref(buffer) == [unrefs EXCEPT ![buffer.id] = @ + 1]

(* ------------------------------ pop_text ------------------------------- *)
\* pop_text leaving the buffer in the slot
pop_text_keeps_buffer(slot) == slot

\* the slot after gst_base_text_overlay_pop_text
pop_text_buffer(slot) == NULL

\* pop_text emptying the slot without releasing the buffer
pop_text_leaks(slot) == unrefs

\* the unref counts after gst_base_text_overlay_pop_text
pop_text_unrefs(slot) == IF slot # NULL THEN gst_buffer_unref(slot) ELSE unrefs

\* a broadcast that wakes nobody
g_cond_broadcast_lost(w) == w

\* the waiters after GST_BASE_TEXT_OVERLAY_BROADCAST
GST_BASE_TEXT_OVERLAY_BROADCAST(w) == {}

\* gst_base_text_overlay_pop_text, called with the lock held
gst_base_text_overlay_pop_text ==
  /\ text_buffer' = pop_text_buffer(text_buffer)
  /\ unrefs' = pop_text_unrefs(text_buffer)
  /\ waiting' = GST_BASE_TEXT_OVERLAY_BROADCAST(waiting)

(* ------------------------------ text_chain ----------------------------- *)
\* the end of the buffer's interval handed to gst_segment_clip
text_chain_stop(buffer) ==
  IF GST_CLOCK_TIME_IS_VALID(buffer.dur) THEN buffer.ts + buffer.dur
  ELSE GST_CLOCK_TIME_NONE

\* text_chain taking every buffer to be inside the text segment
text_chain_clip_always_in_seg(buffer) ==
  [in_seg |-> TRUE, clip_start |-> buffer.ts, clip_stop |-> text_chain_stop(buffer)]

\* in_seg, clip_start and clip_stop of text_chain
text_chain_clip(buffer) ==
  IF GST_CLOCK_TIME_IS_VALID(buffer.ts)
    THEN gst_segment_clip(text_segment, buffer.ts, text_chain_stop(buffer))
  ELSE [in_seg |-> TRUE, clip_start |-> 0, clip_stop |-> 0]

\* the stamps of an in-segment buffer after text_chain has rewritten them
text_chain_fixup(buffer, clip) ==
  IF GST_CLOCK_TIME_IS_VALID(buffer.ts)
    THEN [buffer EXCEPT !.ts = clip.clip_start]
  ELSE IF GST_CLOCK_TIME_IS_VALID(buffer.dur)
    THEN [buffer EXCEPT !.dur = clip.clip_stop - clip.clip_start]
  ELSE buffer

\* text_chain without the loop that waits for the slot to be emptied
text_chain_never_waits == FALSE

\* the condition of the loop "Wait for the previous buffer to go away"
text_chain_must_wait == text_buffer # NULL

\* text_chain without the test of text_flushing after the wait
text_chain_no_flushing_test_after_wait == FALSE

\* the test of text_flushing after GST_BASE_TEXT_OVERLAY_WAIT has returned
text_chain_flushing_after_wait == text_flushing

\* text_chain returns ret at beach and releases the buffer it still owns
text_chain_return(ret, buffer, pushed, waited) ==
  /\ tpc' = "idle" /\ tbuf' = NULL
  /\ returned' = [fn |-> "text_chain", ret |-> ret, pushed |-> pushed,
                  waited |-> waited, stored |-> FALSE]
  /\ unrefs' = gst_buffer_unref(buffer)
  /\ UNCHANGED <<text_buffer, need_render, text_segment, waiting>>

\* text_chain blocks in GST_BASE_TEXT_OVERLAY_WAIT
text_chain_wait(buffer, clip_start, pushed) ==
  /\ tpc' = "wait"
  /\ tbuf' = [buffer |-> buffer, clip_start |-> clip_start, pushed |-> pushed]
  /\ waiting' = waiting \cup {"text"}
  /\ returned' = NoCall
  /\ UNCHANGED <<unrefs, text_buffer, need_render, text_segment>>

\* text_chain stores the buffer in the slot and returns GST_FLOW_OK
text_chain_store(buffer, clip_start, pushed, waited) ==
  /\ text_segment' = IF GST_CLOCK_TIME_IS_VALID(buffer.ts)
                       THEN [text_segment EXCEPT !.position = clip_start]
                     ELSE text_segment
  /\ text_buffer' = buffer
  /\ need_render' = TRUE
  /\ waiting' = GST_BASE_TEXT_OVERLAY_BROADCAST(waiting)
  /\ tpc' = "idle" /\ tbuf' = NULL
  /\ returned' = [fn |-> "text_chain", ret |-> "OK", pushed |-> pushed,
                  waited |-> waited, stored |-> TRUE]
  /\ UNCHANGED unrefs

\* text_chain with the test of text_eos made before the test of text_flushing
text_chain_eos_first ==
  IF text_eos THEN "EOS" ELSE IF text_flushing THEN "FLUSHING" ELSE "OK"

\* the flow return text_chain goes to beach with right after taking the lock
text_chain_flow_at_entry ==
  IF text_flushing THEN "FLUSHING" ELSE IF text_eos THEN "EOS" ELSE "OK"

\* gst_base_text_overlay_text_chain from its entry to its return or its first wait
text_chain_enter(buffer) ==
  IF text_chain_flow_at_entry # "OK"
    THEN text_chain_return(text_chain_flow_at_entry, buffer, buffer, FALSE)
  ELSE LET clip == text_chain_clip(buffer) IN
    IF ~clip.in_seg THEN text_chain_return("OK", buffer, buffer, FALSE)
    ELSE IF text_chain_must_wait
      THEN text_chain_wait(text_chain_fixup(buffer, clip), clip.clip_start, buffer)
    ELSE text_chain_store(text_chain_fixup(buffer, clip), clip.clip_start, buffer,
                          FALSE)

\* the text peer pushes a buffer: gst_base_text_overlay_text_chain is called
gst_base_text_overlay_text_chain ==
  /\ PadsActive /\ text_linked
  /\ tpc = "idle"
  /\ Input
  /\ \E ts \in TextTimestamps, dur \in TextDurations :
       text_chain_enter([id |-> ninputs + 1, ts |-> ts, dur |-> dur])
  /\ UNCHANGED <<elem_state, flags, config, text_image, segment, vpc, vbuf, out>>
  /\ unlocked' = {}
  /\ UNCHANGED call

\* text_chain after GST_BASE_TEXT_OVERLAY_WAIT has returned, to its return or
\* its next wait
text_chain_resume ==
  IF text_chain_flushing_after_wait
    THEN text_chain_return("FLUSHING", tbuf.buffer, tbuf.pushed, TRUE)
  ELSE IF text_chain_must_wait
    THEN text_chain_wait(tbuf.buffer, tbuf.clip_start, tbuf.pushed)
  ELSE text_chain_store(tbuf.buffer, tbuf.clip_start, tbuf.pushed, TRUE)

\* the text streaming thread is woken out of g_cond_wait in text_chain
gst_base_text_overlay_text_chain_woken ==
  /\ tpc = "wait" /\ "text" \notin waiting
  /\ text_chain_resume
  /\ UNCHANGED <<elem_state, flags, config, text_image, segment, vpc, vbuf, out,
                 ninputs>>
  /\ unlocked' = {}
  /\ UNCHANGED call

(* ------------------------------ video_chain ---------------------------- *)
\* the estimate video_chain adds to start when the buffer has no duration:
\* one frame period if the caps carry a framerate, else 1
FrameEstimates == {1, 2}

\* video_chain returns ret without pushing its buffer
video_chain_discard(id, ret) ==
  /\ vpc' = "idle" /\ vbuf' = NULL
  /\ returned' = [fn |-> "video_chain", ret |-> ret, id |-> id, pushed |-> FALSE]
  /\ UNCHANGED out

\* video_chain answering a buffer it cannot use with an error
video_chain_drop_ret_error == "ERROR"

\* what video_chain returns at missing_timestamp and at out_of_segment
video_chain_drop_ret == "OK"

\* video_chain goes to missing_timestamp or out_of_segment before it has taken
\* the lock: the buffer is released and nothing else happens
video_chain_drop(id, ts, dur, label) ==
  /\ vpc' = "idle" /\ vbuf' = NULL
  /\ returned' = [fn |-> "video_chain", ret |-> video_chain_drop_ret, id |-> id,
                  pushed |-> FALSE, at |-> label, ts |-> ts, dur |-> dur]
  /\ UNCHANGED out

\* gst_base_text_overlay_video_chain from its entry to the label wait_for_text_buf
video_chain_enter(id, ts, dur, estimate) ==
  IF ~GST_CLOCK_TIME_IS_VALID(ts)
    THEN video_chain_drop(id, ts, dur, "missing_timestamp")
  ELSE LET start == ts
           stop == IF GST_CLOCK_TIME_IS_VALID(dur) THEN start + dur
                   ELSE GST_CLOCK_TIME_NONE
           clip == gst_segment_clip(segment, start, stop)
       IN IF stop = GST_CLOCK_TIME_NONE /\ start < segment.start
            THEN video_chain_drop(id, ts, dur, "out_of_segment")
          ELSE IF ~clip.in_seg
            THEN video_chain_drop(id, ts, dur, "out_of_segment")
          ELSE /\ vpc' = "loop"
               /\ vbuf' = [id |-> id, start |-> start,
                           stop |-> IF stop = GST_CLOCK_TIME_NONE
                                      THEN start + estimate ELSE stop,
                           clip_start |-> clip.clip_start, displayed |-> 0]
               /\ returned' = NoCall
               /\ UNCHANGED out

\* the video peer pushes a buffer: gst_base_text_overlay_video_chain is called
gst_base_text_overlay_video_chain ==
  /\ PadsActive
  /\ vpc = "idle"
  /\ Input
  /\ \E ts \in VideoTimestamps, dur \in VideoDurations, estimate \in FrameEstimates :
       video_chain_enter(ninputs + 1, ts, dur, estimate)
  /\ UNCHANGED <<elem_state, text_buffer, flags, config, render, text_segment,
                 segment, waiting, tpc, tbuf, unrefs>>
  /\ unlocked' = IF vpc' = "loop" \/ returned'.at = "out_of_segment"
                   THEN {"segment"} ELSE {}
  /\ UNCHANGED call

\* overlay->text_image after gst_base_text_overlay_render_text of content src
render_text_image(src) == IF need_render THEN src ELSE text_image

\* overlay->need_render after gst_base_text_overlay_render_text
render_text_need_render == FALSE

\* video_chain that releases the video buffer instead of pushing it
video_chain_push_dropped(at) ==
  /\ out' = out
  /\ vpc' = "position"
  /\ returned' = [fn |-> "gst_pad_push", at |-> at]
  /\ UNCHANGED <<vbuf, render>>

\* gst_pad_push of the unmodified video buffer
video_chain_push(at) ==
  /\ out' = Append(out, [vid |-> vbuf.id, overlay |-> NULL])
  /\ vpc' = "position"
  /\ returned' = [fn |-> "gst_pad_push", at |-> at]
  /\ UNCHANGED <<vbuf, render>>

\* gst_base_text_overlay_push_frame of a frame with the composition image:
\* when the composition is blended and gst_video_frame_map fails (invalid_frame)
\* the frame is released and not pushed, else it is pushed with the composition
\* attached or blended
push_frame(image, at, mapped) ==
  /\ returned' = [fn |-> "push_frame", at |-> at, pushed |-> mapped]
  /\ out' = IF mapped THEN Append(out, [vid |-> vbuf.id, overlay |-> image])
            ELSE out

\* gst_base_text_overlay_render_text of src, then gst_base_text_overlay_push_frame
video_chain_render_and_push(src, at) ==
  /\ text_image' = render_text_image(src)
  /\ need_render' = render_text_need_render
  /\ \E mapped \in BOOLEAN : push_frame(render_text_image(src), at, mapped)

\* valid_text_time of video_chain
valid_text_time(buffer) ==
  GST_CLOCK_TIME_IS_VALID(buffer.ts) /\ GST_CLOCK_TIME_IS_VALID(buffer.dur)

vid_running_time == gst_segment_to_running_time(segment, vbuf.start)
vid_running_time_end == gst_segment_to_running_time(segment, vbuf.stop)
text_running_time(buffer) ==
  IF valid_text_time(buffer)
    THEN gst_segment_to_running_time(text_segment, buffer.ts)
  ELSE GST_CLOCK_TIME_NONE
text_running_time_end(buffer) ==
  IF valid_text_time(buffer)
    THEN gst_segment_to_running_time(text_segment, buffer.ts + buffer.dur)
  ELSE GST_CLOCK_TIME_NONE

\* "text buffer too old" with < in place of <=
text_too_old_strict(buffer) ==
  valid_text_time(buffer) /\ text_running_time_end(buffer) < vid_running_time

\* "text buffer too old"
text_too_old(buffer) ==
  valid_text_time(buffer) /\ text_running_time_end(buffer) <= vid_running_time

\* "text in future"
text_in_future(buffer) ==
  valid_text_time(buffer) /\ vid_running_time_end <= text_running_time(buffer)

\* pop_text of video_chain after the frame was pushed
text_not_needed_any_longer(buffer) ==
  \/ ~valid_text_time(buffer)
  \/ text_running_time_end(buffer) <= vid_running_time_end

\* wait_for_text_buf comparing with the start of the text segment only
need_to_wait_whatever_text_position ==
  /\ ~text_eos
  /\ wait_text
  /\ ~ /\ text_segment.format = "TIME"
       /\ LET vid == gst_segment_to_running_time(segment, vbuf.clip_start)
              text_start == gst_segment_to_running_time(text_segment,
                                                        text_segment.start)
          IN GST_CLOCK_TIME_IS_VALID(text_start) /\ vid < text_start

\* wait_for_text_buf without the test of text_eos
need_to_wait_despite_text_eos ==
  /\ wait_text
  /\ ~ /\ text_segment.format = "TIME"
       /\ LET vid == gst_segment_to_running_time(segment, vbuf.clip_start)
              text_start == gst_segment_to_running_time(text_segment,
                                                        text_segment.start)
              text_position == gst_segment_to_running_time(text_segment,
                                                           text_segment.position)
          IN \/ GST_CLOCK_TIME_IS_VALID(text_start) /\ vid < text_start
             \/ GST_CLOCK_TIME_IS_VALID(text_position) /\ vid < text_position

\* wait_for_text_buf without the comparison with the text segment
need_to_wait_whatever_text_segment == ~text_eos /\ wait_text

\* wait_for_text_buf of video_chain when no text buffer is queued
need_to_wait_for_text ==
  /\ ~text_eos
  /\ wait_text
  /\ ~ /\ text_segment.format = "TIME"
       /\ LET vid == gst_segment_to_running_time(segment, vbuf.clip_start)
              text_start == gst_segment_to_running_time(text_segment,
                                                        text_segment.start)
              text_position == gst_segment_to_running_time(text_segment,
                                                           text_segment.position)
          IN \/ GST_CLOCK_TIME_IS_VALID(text_start) /\ vid < text_start
             \/ GST_CLOCK_TIME_IS_VALID(text_position) /\ vid < text_position

\* video_chain with a text buffer queued
video_chain_have_text ==
  IF text_too_old(text_buffer) THEN
    /\ gst_base_text_overlay_pop_text
    /\ vpc' = "loop"
    /\ returned' = [fn |-> "pop_text", at |-> "too old", popped |-> text_buffer]
    /\ UNCHANGED <<vbuf, out, render>>
  ELSE IF text_in_future(text_buffer) THEN
    /\ video_chain_push("text in future")
    /\ UNCHANGED <<text_buffer, unrefs, waiting>>
  ELSE
    /\ video_chain_render_and_push(BufferText(text_buffer), "text")
    /\ vbuf' = [vbuf EXCEPT !.displayed = text_buffer.id]
    /\ vpc' = IF text_not_needed_any_longer(text_buffer) THEN "pop" ELSE "position"
    /\ UNCHANGED <<text_buffer, unrefs, waiting>>

\* video_chain with the text pad linked and no text buffer queued
video_chain_no_text ==
  IF need_to_wait_for_text THEN
    /\ vpc' = "wait"
    /\ waiting' = waiting \cup {"video"}
    /\ returned' = NoCall
    /\ UNCHANGED <<vbuf, out, text_buffer, unrefs, render>>
  ELSE
    /\ video_chain_push("no text")
    /\ UNCHANGED <<text_buffer, unrefs, waiting>>

\* video_chain with the text pad not linked: "rendering internal text"
video_chain_not_linked ==
  /\ IF has_default_text
       THEN video_chain_render_and_push(DefaultText, "not linked")
            /\ vpc' = "position" /\ UNCHANGED vbuf
       ELSE video_chain_push("not linked")
  /\ UNCHANGED <<text_buffer, unrefs, waiting>>

\* video_chain with the test of video_eos made before the test of video_flushing
video_chain_eos_first ==
  IF video_eos THEN "EOS" ELSE IF video_flushing THEN "FLUSHING" ELSE "OK"

\* the flow return video_chain leaves with right after taking the lock at
\* wait_for_text_buf
video_chain_flow_at_loop ==
  IF video_flushing THEN "FLUSHING" ELSE IF video_eos THEN "EOS" ELSE "OK"

\* video_chain without the test of overlay->silent
video_chain_never_silent == FALSE

\* the test of overlay->silent at wait_for_text_buf
video_chain_silent == silent

\* video_chain from the label wait_for_text_buf to its next unlock
video_chain_loop ==
  IF video_chain_flow_at_loop # "OK" THEN
    /\ video_chain_discard(vbuf.id, video_chain_flow_at_loop)
    /\ UNCHANGED <<text_buffer, unrefs, waiting, render>>
  ELSE IF video_chain_silent THEN
    /\ video_chain_push("silent")
    /\ UNCHANGED <<text_buffer, unrefs, waiting>>
  ELSE IF ~text_linked THEN video_chain_not_linked
  ELSE IF text_buffer # NULL THEN video_chain_have_text
  ELSE video_chain_no_text

\* what video_chain touches after GST_BASE_TEXT_OVERLAY_UNLOCK: with the text
\* pad not linked render_text and push_frame run unlocked; with a text buffer
\* render_text runs locked and push_frame, which uses the composition, unlocked
video_chain_loop_unlocked ==
  IF returned'.fn = "push_frame"
    THEN IF returned'.at = "not linked" THEN {"need_render", "text_image"}
         ELSE {"text_image"}
  ELSE {}

\* the video streaming thread takes the lock at wait_for_text_buf, on entry or
\* after GST_BASE_TEXT_OVERLAY_WAIT has returned
gst_base_text_overlay_video_chain_loop ==
  /\ \/ vpc = "loop"
     \/ vpc = "wait" /\ "video" \notin waiting
  /\ video_chain_loop
  /\ UNCHANGED <<elem_state, flags, config, text_segment, segment, tpc, tbuf,
                 ninputs>>
  /\ unlocked' = video_chain_loop_unlocked
  /\ UNCHANGED call

\* video_chain takes the lock again and pops the text buffer it has displayed
gst_base_text_overlay_video_chain_pop ==
  /\ vpc = "pop"
  /\ gst_base_text_overlay_pop_text
  /\ vpc' = "position"
  /\ returned' = [fn |-> "pop_text", at |-> "not needed any longer",
                  popped |-> text_buffer]
  /\ UNCHANGED <<elem_state, flags, config, render, text_segment, segment, tpc,
                 tbuf, vbuf, out, ninputs>>
  /\ unlocked' = {}
  /\ UNCHANGED call

\* "Update position" and return of video_chain
gst_base_text_overlay_video_chain_position ==
  /\ vpc = "position"
  /\ segment' = [segment EXCEPT !.position = vbuf.clip_start]
  /\ vpc' = "idle" /\ vbuf' = NULL
  /\ returned' = [fn |-> "video_chain", ret |-> "OK", id |-> vbuf.id,
                  pushed |-> TRUE]
  /\ UNCHANGED <<elem_state, text_buffer, flags, config, render, text_segment,
                 waiting, tpc, tbuf, unrefs, out, ninputs>>
  /\ unlocked' = {"segment"}
  /\ UNCHANGED call

(* ----------------------------- pad events ------------------------------ *)
\* an event reaches the event function of an active pad
EventDelivered == PadsActive /\ Input

\* the text pad gets events from its peer; a serialized event runs on the
\* streaming thread, so not while that thread is inside the chain function
TextEventDelivered == EventDelivered /\ text_linked
TextSerializedEventDelivered == TextEventDelivered /\ tpc = "idle"
VideoSerializedEventDelivered == EventDelivered /\ vpc = "idle"

\* the segment a SEGMENT event carries
EventSegment(format, start, stop, base) ==
  [format |-> format, start |-> start, stop |-> stop, position |-> start,
   base |-> base]

\* gst_base_text_overlay_text_event, GST_EVENT_SEGMENT
text_event_segment ==
  /\ TextSerializedEventDelivered
  /\ returned' = [fn |-> "text_event", type |-> "SEGMENT"]
  /\ text_eos' = FALSE
  /\ \E format \in SegmentFormats, start \in SegmentStarts, stop \in SegmentStops,
        base \in SegmentBases :
       text_segment' = IF format = "TIME"
                         THEN EventSegment(format, start, stop, base)
                       ELSE text_segment
  /\ waiting' = GST_BASE_TEXT_OVERLAY_BROADCAST(waiting)
  /\ UNCHANGED <<elem_state, text_buffer, text_flushing, video_flushing, video_eos,
                 config, render, segment, tpc, tbuf, vpc, vbuf, unrefs, out>>
  /\ unlocked' = {"text_eos"}
  /\ UNCHANGED call

\* a GAP handler that takes the start of the gap for the position
gap_position_at_start(start, duration) == start

\* the position the GAP handler stores: "we do not expect another buffer until
\* after gap"
gap_position(start, duration) ==
  IF GST_CLOCK_TIME_IS_VALID(duration) THEN start + duration ELSE start

\* gst_base_text_overlay_text_event, GST_EVENT_GAP
text_event_gap ==
  /\ TextSerializedEventDelivered
  /\ \E start \in GapStarts, duration \in GapDurations :
       /\ returned' = [fn |-> "text_event", type |-> "GAP", start |-> start,
                       duration |-> duration]
       /\ text_segment' = [text_segment EXCEPT !.position =
                             gap_position(start, duration)]
  /\ waiting' = GST_BASE_TEXT_OVERLAY_BROADCAST(waiting)
  /\ UNCHANGED <<elem_state, text_buffer, flags, config, render, segment, tpc,
                 tbuf, vpc, vbuf, unrefs, out>>
  /\ unlocked' = {"text_segment"}
  /\ UNCHANGED call

\* gst_base_text_overlay_text_event, GST_EVENT_FLUSH_STOP
text_event_flush_stop ==
  /\ TextSerializedEventDelivered
  /\ returned' = [fn |-> "text_event", type |-> "FLUSH_STOP"]
  /\ text_flushing' = FALSE
  /\ text_eos' = FALSE
  /\ gst_base_text_overlay_pop_text
  /\ text_segment' = gst_segment_init("TIME")
  /\ UNCHANGED <<elem_state, video_flushing, video_eos, config, render, segment,
                 tpc, tbuf, vpc, vbuf, out>>
  /\ unlocked' = {}
  /\ UNCHANGED call

\* gst_base_text_overlay_text_event, GST_EVENT_FLUSH_START
text_event_flush_start ==
  /\ TextEventDelivered
  /\ returned' = [fn |-> "text_event", type |-> "FLUSH_START"]
  /\ text_flushing' = TRUE
  /\ waiting' = GST_BASE_TEXT_OVERLAY_BROADCAST(waiting)
  /\ UNCHANGED <<elem_state, text_buffer, video_flushing, text_eos, video_eos,
                 config, render, text_segment, segment, tpc, tbuf, vpc, vbuf,
                 unrefs, out>>
  /\ unlocked' = {}
  /\ UNCHANGED call

\* gst_base_text_overlay_text_event, GST_EVENT_EOS
text_event_eos ==
  /\ TextSerializedEventDelivered
  /\ returned' = [fn |-> "text_event", type |-> "EOS"]
  /\ text_eos' = TRUE
  /\ waiting' = GST_BASE_TEXT_OVERLAY_BROADCAST(waiting)
  /\ UNCHANGED <<elem_state, text_buffer, text_flushing, video_flushing, video_eos,
                 config, render, text_segment, segment, tpc, tbuf, vpc, vbuf,
                 unrefs, out>>
  /\ unlocked' = {}
  /\ UNCHANGED call

\* gst_base_text_overlay_video_event, GST_EVENT_SEGMENT
video_event_segment ==
  /\ VideoSerializedEventDelivered
  /\ returned' = [fn |-> "video_event", type |-> "SEGMENT"]
  /\ \E format \in SegmentFormats, start \in SegmentStarts, stop \in SegmentStops,
        base \in SegmentBases :
       segment' = IF format = "TIME" THEN EventSegment(format, start, stop, base)
                  ELSE segment
  /\ UNCHANGED <<elem_state, text_buffer, flags, config, render, text_segment,
                 waiting, tpc, tbuf, vpc, vbuf, unrefs, out>>
  /\ unlocked' = {"segment"}
  /\ UNCHANGED call

\* gst_base_text_overlay_video_event, GST_EVENT_CAPS: gst_base_text_overlay_setcaps
\* asks for a new render when the caps carry another width or height than the
\* last ones
video_event_caps ==
  /\ VideoSerializedEventDelivered
  /\ \E size_changed \in BOOLEAN :
       /\ returned' = [fn |-> "video_event", type |-> "CAPS",
                       size_changed |-> size_changed]
       /\ need_render' = IF size_changed THEN TRUE ELSE need_render
  /\ UNCHANGED <<elem_state, text_buffer, flags, config, text_image, text_segment,
                 segment, waiting, tpc, tbuf, vpc, vbuf, unrefs, out>>
  /\ unlocked' = IF returned'.size_changed THEN {"need_render"} ELSE {}
  /\ UNCHANGED call

\* gst_base_text_overlay_video_event, GST_EVENT_EOS
video_event_eos ==
  /\ VideoSerializedEventDelivered
  /\ returned' = [fn |-> "video_event", type |-> "EOS"]
  /\ video_eos' = TRUE
  /\ UNCHANGED <<elem_state, text_buffer, text_flushing, video_flushing, text_eos,
                 config, render, text_segment, segment, waiting, tpc, tbuf, vpc,
                 vbuf, unrefs, out>>
  /\ unlocked' = {}
  /\ UNCHANGED call

\* a FLUSH_START of the video pad that only broadcasts
video_flush_start_flag_not_set == FALSE

\* overlay->video_flushing after the FLUSH_START of the video pad
video_flush_start_flag == TRUE

\* gst_base_text_overlay_video_event, GST_EVENT_FLUSH_START
video_event_flush_start ==
  /\ EventDelivered
  /\ returned' = [fn |-> "video_event", type |-> "FLUSH_START"]
  /\ video_flushing' = video_flush_start_flag
  /\ waiting' = GST_BASE_TEXT_OVERLAY_BROADCAST(waiting)
  /\ UNCHANGED <<elem_state, text_buffer, text_flushing, text_eos, video_eos,
                 config, render, text_segment, segment, tpc, tbuf, vpc, vbuf,
                 unrefs, out>>
  /\ unlocked' = {}
  /\ UNCHANGED call

\* gst_base_text_overlay_video_event, GST_EVENT_FLUSH_STOP
video_event_flush_stop ==
  /\ VideoSerializedEventDelivered
  /\ returned' = [fn |-> "video_event", type |-> "FLUSH_STOP"]
  /\ video_flushing' = FALSE
  /\ video_eos' = FALSE
  /\ segment' = gst_segment_init("TIME")
  /\ UNCHANGED <<elem_state, text_buffer, text_flushing, text_eos, config, render,
                 text_segment, waiting, tpc, tbuf, vpc, vbuf, unrefs, out>>
  /\ unlocked' = {}
  /\ UNCHANGED call

(* ------------------------- properties, pad links ----------------------- *)
\* gst_base_text_overlay_set_property of PROP_SILENT, PROP_WAIT_TEXT or PROP_TEXT
gst_base_text_overlay_set_property ==
  /\ Input
  /\ returned' = [fn |-> "set_property"]
  /\ \/ \E v \in BOOLEAN : silent' = v /\ UNCHANGED <<wait_text, has_default_text>>
     \/ \E v \in BOOLEAN : wait_text' = v /\ UNCHANGED <<silent, has_default_text>>
     \/ \E v \in BOOLEAN : has_default_text' = v /\ UNCHANGED <<silent, wait_text>>
  /\ need_render' = TRUE
  /\ UNCHANGED <<elem_state, text_buffer, flags, text_linked, text_image,
                 text_segment, segment, waiting, tpc, tbuf, vpc, vbuf, unrefs, out>>
  /\ unlocked' = {}
  /\ UNCHANGED call

\* gst_base_text_overlay_get_property of any property
gst_base_text_overlay_get_property ==
  /\ Input
  /\ returned' = [fn |-> "get_property"]
  /\ need_render' = TRUE
  /\ UNCHANGED <<elem_state, text_buffer, flags, config, text_image, text_segment,
                 segment, waiting, tpc, tbuf, vpc, vbuf, unrefs, out>>
  /\ unlocked' = {}
  /\ UNCHANGED call

\* gst_base_text_overlay_text_pad_link
gst_base_text_overlay_text_pad_link ==
  /\ ~text_linked
  /\ returned' = [fn |-> "text_pad_link"]
  /\ text_linked' = TRUE
  /\ UNCHANGED <<elem_state, text_buffer, flags, silent, wait_text,
                 has_default_text, render, text_segment, segment, waiting, tpc,
                 tbuf, vpc, vbuf, unrefs, out, ninputs>>
  /\ unlocked' = {"text_linked"}
  /\ UNCHANGED call

\* gst_base_text_overlay_text_pad_unlink
gst_base_text_overlay_text_pad_unlink ==
  /\ text_linked
  /\ Input
  /\ returned' = [fn |-> "text_pad_unlink"]
  /\ text_linked' = FALSE
  /\ text_segment' = gst_segment_init("UNDEFINED")
  /\ UNCHANGED <<elem_state, text_buffer, flags, silent, wait_text,
                 has_default_text, render, segment, waiting, tpc, tbuf, vpc, vbuf,
                 unrefs, out>>
  /\ unlocked' = {"text_linked", "text_segment"}
  /\ UNCHANGED call

(* ---------------------------- change_state ----------------------------- *)
\* PAUSED_TO_READY that leaves the flushing flags clear
change_state_flushing_not_forced == FALSE

\* the value PAUSED_TO_READY stores in text_flushing and video_flushing
change_state_paused_to_ready_flushing == TRUE

\* gst_base_text_overlay_change_state, GST_STATE_CHANGE_PAUSED_TO_READY, up to
\* the call of the parent class
change_state_paused_to_ready ==
  /\ elem_state = "PAUSED"
  /\ Input
  /\ returned' = [fn |-> "change_state", transition |-> "PAUSED_TO_READY"]
  /\ elem_state' = "PAUSED_TO_READY"
  /\ text_flushing' = change_state_paused_to_ready_flushing
  /\ video_flushing' = change_state_paused_to_ready_flushing
  /\ gst_base_text_overlay_pop_text
  /\ UNCHANGED <<text_eos, video_eos, config, render, text_segment, segment, tpc,
                 tbuf, vpc, vbuf, out>>
  /\ unlocked' = {}
  /\ UNCHANGED call

\* parent_class->change_state for PAUSED_TO_READY: the pads are deactivated, which
\* waits until both streaming threads have left their chain functions
parent_change_state_paused_to_ready ==
  /\ elem_state = "PAUSED_TO_READY"
  /\ tpc = "idle" /\ vpc = "idle"
  /\ elem_state' = "READY"
  /\ returned' = [fn |-> "parent_change_state", transition |-> "PAUSED_TO_READY"]
  /\ UNCHANGED <<shared, waiting, tpc, tbuf, vpc, vbuf, unrefs, out, ninputs>>
  /\ unlocked' = {}
  /\ UNCHANGED call

\* gst_base_text_overlay_change_state, GST_STATE_CHANGE_READY_TO_PAUSED
change_state_ready_to_paused ==
  /\ elem_state = "READY"
  /\ elem_state' = "PAUSED"
  /\ returned' = [fn |-> "change_state", transition |-> "READY_TO_PAUSED"]
  /\ text_flushing' = FALSE
  /\ video_flushing' = FALSE
  /\ video_eos' = FALSE
  /\ text_eos' = FALSE
  /\ segment' = gst_segment_init("TIME")
  /\ text_segment' = gst_segment_init("TIME")
  /\ UNCHANGED <<text_buffer, config, render, waiting, tpc, tbuf, vpc, vbuf,
                 unrefs, out, ninputs>>
  /\ unlocked' = {}
  /\ UNCHANGED call

(* ------------------------------ g_cond_wait ---------------------------- *)
\* g_cond_wait may return without a signal or broadcast (spurious wakeup)
g_cond_wait_spurious_wakeup ==
  /\ \E t \in waiting : waiting' = waiting \ {t}
  /\ returned' = NoCall
  /\ UNCHANGED <<elem_state, shared, tpc, tbuf, vpc, vbuf, unrefs, out, ninputs>>
  /\ unlocked' = {}
  /\ UNCHANGED call

(* ---------------------------- specification ---------------------------- *)
Next ==
  \/ gst_base_text_overlay_text_chain
  \/ gst_base_text_overlay_text_chain_woken
  \/ gst_base_text_overlay_video_chain
  \/ gst_base_text_overlay_video_chain_loop
  \/ gst_base_text_overlay_video_chain_pop
  \/ gst_base_text_overlay_video_chain_position
  \/ text_event_segment
  \/ text_event_gap
  \/ text_event_flush_stop
  \/ text_event_flush_start
  \/ text_event_eos
  \/ video_event_segment
  \/ video_event_caps
  \/ video_event_eos
  \/ video_event_flush_start
  \/ video_event_flush_stop
  \/ gst_base_text_overlay_set_property
  \/ gst_base_text_overlay_get_property
  \/ gst_base_text_overlay_text_pad_link
  \/ gst_base_text_overlay_text_pad_unlink
  \/ change_state_paused_to_ready
  \/ parent_change_state_paused_to_ready
  \/ change_state_ready_to_paused
  \/ g_cond_wait_spurious_wakeup

Spec == Init /\ [][Next]_vars

\* a thread that g_cond_wait has returned in gets the mutex and runs on
SpecFair ==
  /\ Spec
  /\ WF_vars(gst_base_text_overlay_video_chain_loop)
  /\ WF_vars(gst_base_text_overlay_text_chain_woken)

\* the video streaming thread, once inside video_chain with the mutex free, runs
\* on to the return of video_chain
SpecFairChain ==
  /\ SpecFair
  /\ WF_vars(gst_base_text_overlay_video_chain_pop)
  /\ WF_vars(gst_base_text_overlay_video_chain_position)

(* -------------------- runs that start after a render ------------------- *)
\* States Spec reaches within four inputs, with the input count, the output
\* and the text buffer ids started afresh.  In both the default text is set, a
\* text buffer was stored, and a video buffer [0,1) was rendered and pushed:
\* the text pad was unlinked with the buffer queued and the default text was
\* rendered; or the queued buffer [0,2) was rendered and is still queued.
QueuedWhenUnlinked ==
  { [id |-> 1, ts |-> GST_CLOCK_TIME_NONE, dur |-> GST_CLOCK_TIME_NONE],
    [id |-> 1, ts |-> 0, dur |-> 2] }

InitRendered ==
  /\ elem_state = "PAUSED"
  /\ text_flushing = FALSE /\ video_flushing = FALSE
  /\ text_eos = FALSE /\ video_eos = FALSE
  /\ silent = DEFAULT_PROP_SILENT
  /\ wait_text = DEFAULT_PROP_WAIT_TEXT
  /\ has_default_text = TRUE
  /\ need_render = FALSE
  /\ segment = gst_segment_init("TIME")
  /\ \/ /\ text_linked = FALSE
        /\ text_buffer \in QueuedWhenUnlinked
        /\ text_image = DefaultText
        /\ text_segment = gst_segment_init("UNDEFINED")
     \/ /\ text_linked = TRUE
        /\ text_buffer = [id |-> 1, ts |-> 0, dur |-> 2]
        /\ text_image = BufferText(text_buffer)
        /\ text_segment = gst_segment_init("TIME")
  /\ waiting = {}
  /\ tpc = "idle" /\ tbuf = NULL
  /\ vpc = "idle" /\ vbuf = NULL
  /\ returned = NoCall
  /\ unrefs = [i \in 1 .. MaxInputs |-> 0]
  /\ out = << >>
  /\ ninputs = 1
  /\ unlocked = {}
  /\ call = NoCall

SpecRendered == InitRendered /\ [][Next]_vars

\* The states above, and a state Spec reaches within two inputs, counted
\* afresh in the same way: the text buffer [0,1) was stored, the video buffer
\* [0,1) was rendered with it and pushed by push_frame, and video_chain, which
\* has found the text buffer not needed any longer, is about to take the lock
\* again for pop_text.
InitPopPending ==
  \/ InitRendered
  \/ /\ elem_state = "PAUSED"
     /\ text_flushing = FALSE /\ video_flushing = FALSE
     /\ text_eos = FALSE /\ video_eos = FALSE
     /\ silent = DEFAULT_PROP_SILENT
     /\ wait_text = DEFAULT_PROP_WAIT_TEXT
     /\ has_default_text = FALSE
     /\ need_render = FALSE
     /\ segment = gst_segment_init("TIME")
     /\ text_linked = TRUE
     /\ text_buffer = [id |-> 1, ts |-> 0, dur |-> 1]
     /\ text_image = BufferText(text_buffer)
     /\ text_segment = gst_segment_init("TIME")
     /\ waiting = {}
     /\ tpc = "idle" /\ tbuf = NULL
     /\ vpc = "pop"
     /\ vbuf = [id |-> 1, start |-> 0, stop |-> 1, clip_start |-> 0,
                displayed |-> 1]
     /\ returned = NoCall
     /\ unrefs = [i \in 1 .. MaxInputs |-> 0]
     /\ out = << >>
     /\ ninputs = 1
     /\ unlocked = {}
     /\ call = NoCall

SpecPopPending == InitPopPending /\ [][Next]_vars

(* ------------------------------- get_pos ------------------------------- *)
\* the alignments, sizes in pixels, paddings, positions (as fractions
\* <<numerator, denominator>> of the frame size) and deltas get_pos is called with
HAligns == {"LEFT", "CENTER", "RIGHT", "POS"}
VAligns == {"BASELINE", "BOTTOM", "TOP", "POS", "CENTER"}
FrameSizes == {3, 4}
ImageSizes == {2, 5}
Paddings == {0, 3}
Positions == {<<0, 1>>, <<1, 2>>, <<1, 1>>}
Deltas == {-1, 2}

\* the division of C, which truncates towards zero
CDiv(a, b) == IF a >= 0 THEN a \div b ELSE -((-a) \div b)

\* CLAMP that leaves x as it is
CLAMP_not_applied(x, low, high) == x

\* CLAMP of glib
CLAMP(x, low, high) == IF x > high THEN high ELSE IF x < low THEN low ELSE x

\* (gint) (size * pos) for a position pos between 0 and 1
ScaledPosition(size, pos) == (size * pos[1]) \div pos[2]

\* *xpos of gst_base_text_overlay_get_pos before deltax is added
get_pos_x(a) ==
  LET halign == IF a.use_vertical_render THEN "RIGHT" ELSE a.halign
      width == a.image_width
  IN CASE halign = "LEFT" -> a.xpad
       [] halign = "CENTER" -> CDiv(a.width - width, 2)
       [] halign = "RIGHT" -> a.width - width - a.xpad
       [] halign = "POS" ->
            LET x == CLAMP(ScaledPosition(a.width, a.xpos) - CDiv(width, 2), 0,
                           a.width - width)
            IN IF x < 0 THEN 0 ELSE x
       [] OTHER -> 0

\* *ypos of gst_base_text_overlay_get_pos before deltay is added
get_pos_y(a) ==
  LET valign == IF a.use_vertical_render THEN "TOP" ELSE a.valign
      height == a.image_height
  IN CASE valign = "BOTTOM" -> a.height - height - a.ypad
       [] valign = "BASELINE" -> a.height - (height + a.ypad)
       [] valign = "TOP" -> a.ypad
       [] valign = "POS" ->
            CLAMP(ScaledPosition(a.height, a.ypos) - CDiv(height, 2), 0,
                  a.height - height)
       [] valign = "CENTER" -> CDiv(a.height - height, 2)
       [] OTHER -> a.ypad

\* the fields of the overlay gst_base_text_overlay_get_pos reads
GetPosArguments ==
  [halign : HAligns, valign : VAligns, use_vertical_render : BOOLEAN,
   width : FrameSizes, height : FrameSizes,
   image_width : ImageSizes, image_height : ImageSizes,
   xpad : Paddings, ypad : Paddings, xpos : Positions, ypos : Positions,
   deltax : Deltas, deltay : Deltas]

\* gst_base_text_overlay_get_pos
gst_base_text_overlay_get_pos ==
  /\ call.fn = "get_pos" /\ ~call.done
  /\ call' = [fn |-> "get_pos", done |-> TRUE, args |-> call.args,
              xpos |-> get_pos_x(call.args) + call.args.deltax,
              ypos |-> get_pos_y(call.args) + call.args.deltay]
  /\ UNCHANGED <<elem_state, shared, waiting, tpc, tbuf, vpc, vbuf, returned,
                 unrefs, out, ninputs, unlocked>>

\* get_pos is called on an overlay with any of the alignments, sizes, paddings,
\* positions and deltas
InitGetPos ==
  /\ gst_base_text_overlay_init
  /\ \E a \in GetPosArguments :
       call = [fn |-> "get_pos", done |-> FALSE, args |-> a, xpos |-> 0,
               ypos |-> 0]

NextGetPos == gst_base_text_overlay_get_pos

SpecGetPos == InitGetPos /\ [][NextGetPos]_vars

(* ------------------------ negotiate and push_frame --------------------- *)
\* what the caps and the peer of the source pad answer during one
\* gst_base_text_overlay_negotiate: there are caps; the caps of upstream carry
\* the overlay composition meta feature; downstream accepts the caps with the
\* feature added; gst_pad_set_caps succeeds; the ALLOCATION query succeeds; the
\* query holds the overlay composition meta; video_flushing is set;
\* gst_pad_set_caps of the original caps succeeds; the element can blend on
\* frames of these caps
NegotiateAnswers ==
  [caps : BOOLEAN, original_has_meta : BOOLEAN, accept_caps : BOOLEAN,
   set_caps : BOOLEAN, allocation : BOOLEAN, allocation_meta : BOOLEAN,
   video_flushing : BOOLEAN, set_original_caps : BOOLEAN,
   can_handle_caps : BOOLEAN]

\* negotiate that attaches whenever the caps carry the meta feature
negotiate_attach_without_allocation_meta(n) ==
  n.set_caps /\ (n.original_has_meta \/ n.accept_caps)

\* attach of gst_base_text_overlay_negotiate, when there are caps
negotiate_attach(n) ==
  LET caps_has_meta == n.original_has_meta \/ n.accept_caps
  IN n.set_caps /\ caps_has_meta /\ n.allocation_meta

\* the return value of gst_base_text_overlay_negotiate, when there are caps
negotiate_ret(n) ==
  LET caps_has_meta == n.original_has_meta \/ n.accept_caps
      allocation_ret == ~n.set_caps \/ n.allocation
  IN IF ~allocation_ret /\ n.video_flushing THEN FALSE
     ELSE IF ~n.original_has_meta /\ ~negotiate_attach(n) /\ caps_has_meta
       THEN n.set_original_caps /\ n.can_handle_caps
     ELSE n.set_caps

\* overlay->attach_compo_to_buffer and the reconfigure mark of the source pad
\* after gst_base_text_overlay_negotiate: without caps (no_format) it returns
\* FALSE and leaves both as they are
negotiate(n, attach, reconfigure) ==
  IF ~n.caps THEN [attach |-> attach, reconfigure |-> reconfigure]
  ELSE [attach |-> negotiate_attach(n),
        reconfigure |-> reconfigure \/ ~negotiate_ret(n)]

\* what gst_base_text_overlay_push_frame does with the video frame
push_frame_result(composition, attach, mapped) ==
  IF composition = NULL THEN "pushed unchanged"
  ELSE IF attach THEN "pushed with meta attached"
  ELSE IF mapped THEN "pushed with pixels blended"
  ELSE "released"

\* gst_base_text_overlay_setcaps calls gst_base_text_overlay_negotiate
gst_base_text_overlay_negotiate ==
  /\ call.fn = "push_frame" /\ call.phase = "setcaps"
  /\ \E n \in NegotiateAnswers :
       call' = [call EXCEPT !.phase = "push",
                            !.negotiated = IF n.caps THEN n ELSE @,
                            !.attach = negotiate(n, call.attach, FALSE).attach,
                            !.reconfigure =
                               negotiate(n, call.attach, FALSE).reconfigure]
  /\ UNCHANGED <<elem_state, shared, waiting, tpc, tbuf, vpc, vbuf, returned,
                 unrefs, out, ninputs, unlocked>>

\* gst_base_text_overlay_push_frame: with a composition it negotiates again if
\* the source pad is marked for reconfiguration, by the last negotiation or by
\* downstream, and then attaches the composition or maps the frame and blends
gst_base_text_overlay_push_frame ==
  /\ call.fn = "push_frame" /\ call.phase = "push"
  /\ \E downstream_reconfigure, mapped \in BOOLEAN, n \in NegotiateAnswers :
       LET check_reconfigure == call.composition # NULL /\
                                (call.reconfigure \/ downstream_reconfigure)
           after == IF check_reconfigure THEN negotiate(n, call.attach, FALSE)
                    ELSE [attach |-> call.attach,
                          reconfigure |-> call.reconfigure]
       IN call' = [call EXCEPT
                     !.phase = "done",
                     !.negotiated = IF check_reconfigure /\ n.caps THEN n ELSE @,
                     !.attach = after.attach,
                     !.reconfigure = after.reconfigure,
                     !.result = push_frame_result(call.composition,
                                                  after.attach, mapped)]
  /\ UNCHANGED <<elem_state, shared, waiting, tpc, tbuf, vpc, vbuf, returned,
                 unrefs, out, ninputs, unlocked>>

\* a frame is about to be pushed with or without a composition; the caps have
\* not been set yet
InitPushFrame ==
  /\ gst_base_text_overlay_init
  /\ \E composition \in {NULL, DefaultText} :
       call = [fn |-> "push_frame", phase |-> "setcaps",
               composition |-> composition, negotiated |-> NULL,
               attach |-> FALSE, reconfigure |-> FALSE, result |-> "none"]

NextPushFrame ==
  \/ gst_base_text_overlay_negotiate
  \/ gst_base_text_overlay_push_frame

SpecPushFrame == InitPushFrame /\ [][NextPushFrame]_vars

(* ---------------------------- audio converter -------------------------- *)
\* GstAudioFormatInfo of the formats the converter is built for: width and
\* depth in bits, integer or float, and the format unpack_func produces
AudioFormats == {"S8", "S16", "S32", "F32", "F64"}
gst_audio_format_get_info(format) ==
  CASE format = "S8" ->
         [format |-> "S8", width |-> 8, depth |-> 8, integer |-> TRUE,
          unpack_format |-> "S32"]
    [] format = "S16" ->
         [format |-> "S16", width |-> 16, depth |-> 16, integer |-> TRUE,
          unpack_format |-> "S32"]
    [] format = "S32" ->
         [format |-> "S32", width |-> 32, depth |-> 32, integer |-> TRUE,
          unpack_format |-> "S32"]
    [] format = "F32" ->
         [format |-> "F32", width |-> 32, depth |-> 32, integer |-> FALSE,
          unpack_format |-> "F64"]
    [] OTHER ->
         [format |-> "F64", width |-> 64, depth |-> 64, integer |-> FALSE,
          unpack_format |-> "F64"]

AudioChannels == {1, 2}
\* numbers of frames in the input and of frames the output has room for
AudioSamples == {0, 1, 2}
\* the input is filled with one of these patterns of bytes
AudioPatterns == {0, 1}

\* GstAudioInfo: interleaved, bpf bytes per frame
GstAudioInfo(format, channels) ==
  [finfo |-> gst_audio_format_get_info(format), channels |-> channels,
   layout |-> "INTERLEAVED",
   bpf |-> (gst_audio_format_get_info(format).width * channels) \div 8]

\* audio_chain_new for the current layout, channels and format of the converter
audio_chain_new(make_func, convert) ==
  LET inc == IF convert.current_layout = "NON_INTERLEAVED" THEN 1
             ELSE convert.current_channels
      blocks == IF convert.current_layout = "NON_INTERLEAVED"
                  THEN convert.current_channels ELSE 1
  IN [make_func |-> make_func, inc |-> inc, blocks |-> blocks,
      stride |-> (gst_audio_format_get_info(convert.current_format).width * inc)
                   \div 8]

\* the converter after a chain was added: chains holds the chains from
\* unpack_chain to the last one made, each the prev of the next
chain_add(convert, make_func) ==
  [convert EXCEPT !.chains = Append(@, audio_chain_new(make_func, convert))]

\* step 1, unpack
chain_unpack(in, o) ==
  chain_add([in |-> in, out |-> o,
             current_format |-> in.finfo.unpack_format,
             current_layout |-> in.layout,
             current_channels |-> in.channels,
             in_default |-> in.finfo.unpack_format = in.finfo.format,
             mix_passthrough |-> FALSE, out_default |-> FALSE,
             pack_format |-> "UNKNOWN",
             passthrough |-> FALSE, chains |-> <<>>], "do_unpack")

\* step 2, optional convert from S32 to F64 for channel mix
chain_convert_in(convert) ==
  IF convert.in.finfo.integer /\ ~convert.out.finfo.integer
    THEN chain_add([convert EXCEPT !.current_format = "F64"], "do_convert_in")
  ELSE convert

\* step 3, channel mix; is_passthrough is the answer of
\* gst_audio_channel_mix_is_passthrough
chain_mix(convert, is_passthrough) ==
  LET mixed == [convert EXCEPT !.current_channels = convert.out.channels,
                               !.mix_passthrough = is_passthrough]
  IN IF ~is_passthrough THEN chain_add(mixed, "do_mix") ELSE mixed

\* step 4 left out
chain_convert_out_omitted(convert) == convert

\* step 4, optional convert for quantize
chain_convert_out(convert) ==
  IF ~convert.in.finfo.integer /\ convert.out.finfo.integer
    THEN chain_add([convert EXCEPT !.current_format = "S32"], "do_convert_out")
  ELSE convert

\* step 5, optional quantize
chain_quantize(convert) ==
  IF convert.out.finfo.integer /\ convert.out.finfo.depth < 32
    THEN chain_add(convert, "do_quantize")
  ELSE convert

\* step 6, pack; pack_format is the local format, the current format chain_pack
\* is entered with, which g_assert compares with out->finfo->unpack_format
chain_pack(convert) ==
  [convert EXCEPT
     !.pack_format = convert.current_format,
     !.out_default = convert.current_format = convert.out.finfo.format,
     !.current_format = convert.out.finfo.format]

\* "same formats and passthrough mixing -> passthrough"
passthrough_optimize(convert) ==
  convert.out.finfo.format = convert.in.finfo.format /\ convert.mix_passthrough

\* gst_audio_converter_new
gst_audio_converter_new(in, o, is_passthrough) ==
  LET convert ==
        chain_pack(chain_quantize(chain_convert_out(
          chain_mix(chain_convert_in(chain_unpack(in, o)), is_passthrough))))
  IN [convert EXCEPT !.passthrough = passthrough_optimize(convert)]

\* convert->pack_chain
pack_chain(convert) == convert.chains[Len(convert.chains)]

\* the make_func of every chain, in the order audio_chain_get_samples on the
\* pack chain runs them: each first gets the samples of its prev
audio_chain_get_samples(convert) ==
  [k \in 1 .. Len(convert.chains) |-> convert.chains[k].make_func]

\* memcpy (dest, src, n)
memcpy(dest, src, n) ==
  [k \in 1 .. Len(dest) |-> IF k <= n THEN src[k] ELSE dest[k]]

\* a byte of converted output; the values conversion produces are not modelled
ConvertedByte == -1

\* the block of the output after the chains and pack_func have produced frames
\* frames of the output format in it
converted(dest, frames, convert) ==
  [k \in 1 .. Len(dest) |->
     IF k <= frames * convert.out.bpf THEN ConvertedByte ELSE dest[k]]

\* gst_audio_converter_samples converting all of the input
MIN_in_samples(a, b) == a

\* in_samples = MIN (in_samples, out_samples)
MIN(a, b) == IF a < b THEN a ELSE b

\* gst_audio_converter_samples with in_samples already MIN (in_samples,
\* out_samples): what it returns, reports, runs and leaves in out
audio_converter_samples(convert, in, in_samples, o) ==
  IF in_samples = 0
    THEN [ret |-> TRUE, in_consumed |-> 0, out_produced |-> 0, steps |-> <<>>,
          out |-> o]
  ELSE IF convert.passthrough
    THEN [ret |-> TRUE, in_consumed |-> in_samples, out_produced |-> in_samples,
          steps |-> <<>>,
          out |-> [i \in 1 .. pack_chain(convert).blocks |->
                     memcpy(o[i], in[i], in_samples * pack_chain(convert).inc)]]
  ELSE [ret |-> TRUE, in_consumed |-> in_samples, out_produced |-> in_samples,
        steps |-> audio_chain_get_samples(convert),
        out |-> [i \in 1 .. pack_chain(convert).blocks |->
                   converted(o[i], in_samples, convert)]]

\* a block of frames frames of bpf bytes each, filled with a pattern of bytes
\* that are all different from the byte 0 of a fresh output block
AudioBlock(frames, bpf, pattern) ==
  [k \in 1 .. frames * bpf |-> 1 + ((k + pattern) % 3)]
FreshBlock(frames, bpf) == [k \in 1 .. frames * bpf |-> 0]

\* the application makes a converter for two formats
gst_audio_converter_new_called ==
  /\ call.fn = "audio_converter" /\ call.phase = "new"
  /\ \E is_passthrough \in
         (IF call.in.channels = call.out.channels THEN BOOLEAN ELSE {FALSE}) :
       call' = [call EXCEPT
                  !.phase = "samples",
                  !.convert = gst_audio_converter_new(call.in, call.out,
                                                      is_passthrough)]
  /\ UNCHANGED <<elem_state, shared, waiting, tpc, tbuf, vpc, vbuf, returned,
                 unrefs, out, ninputs, unlocked>>

\* the application converts in_samples frames into room for out_samples frames
gst_audio_converter_samples ==
  /\ call.fn = "audio_converter" /\ call.phase = "samples"
  /\ LET r == audio_converter_samples(call.convert, call.in_data,
                                      MIN(call.in_samples, call.out_samples),
                                      call.out_data)
     IN call' = [call EXCEPT !.phase = "done", !.ret = r.ret,
                             !.in_consumed = r.in_consumed,
                             !.out_produced = r.out_produced,
                             !.steps = r.steps, !.out_data = r.out]
  /\ UNCHANGED <<elem_state, shared, waiting, tpc, tbuf, vpc, vbuf, returned,
                 unrefs, out, ninputs, unlocked>>

\* any two formats and channel counts, any numbers of frames; in holds
\* in_samples frames of the input format, out has room for out_samples frames
\* of the output format and holds zeroes
InitConverter ==
  /\ gst_base_text_overlay_init
  /\ \E in_format, out_format \in AudioFormats,
        in_channels, out_channels \in AudioChannels,
        in_samples, out_samples \in AudioSamples, pattern \in AudioPatterns :
       LET in == GstAudioInfo(in_format, in_channels)
           o == GstAudioInfo(out_format, out_channels)
       IN call = [fn |-> "audio_converter", phase |-> "new", in |-> in,
                  out |-> o, convert |-> NULL,
                  in_data |-> <<AudioBlock(in_samples, in.bpf, pattern)>>,
                  in_samples |-> in_samples,
                  out_data |-> <<FreshBlock(out_samples, o.bpf)>>,
                  out_samples |-> out_samples,
                  ret |-> FALSE, in_consumed |-> 0, out_produced |-> 0,
                  steps |-> <<>>]

NextConverter ==
  \/ gst_audio_converter_new_called
  \/ gst_audio_converter_samples

SpecConverter == InitConverter /\ [][NextConverter]_vars

(* ------------------ a video stream that keeps arriving ------------------ *)
\* the video peer stops after the frame with this timestamp
VideoHorizon == 5

\* the video peer pushes the next frame of a stream of frames of duration 1
\* with strictly increasing timestamps: gst_base_text_overlay_video_chain is
\* called with it
video_chain_next_frame ==
  /\ PadsActive
  /\ vpc = "idle"
  /\ segment.position < VideoHorizon
  /\ video_chain_enter(MaxInputs + segment.position + 1, segment.position + 1, 1, 1)
  /\ UNCHANGED <<elem_state, text_buffer, flags, config, render, text_segment,
                 segment, waiting, tpc, tbuf, unrefs, ninputs>>
  /\ unlocked' = {"segment"}
  /\ UNCHANGED call

\* The overlay in PAUSED with the text pad linked, after READY_TO_PAUSED, with
\* any setting of the properties silent and wait-text; no buffer has arrived yet.
InitStreaming ==
  /\ elem_state = "PAUSED"
  /\ text_buffer = NULL
  /\ text_flushing = FALSE /\ video_flushing = FALSE
  /\ text_eos = FALSE /\ video_eos = FALSE
  /\ text_linked = TRUE
  /\ silent \in BOOLEAN
  /\ wait_text \in BOOLEAN
  /\ has_default_text = FALSE
  /\ need_render = TRUE
  /\ text_image = NULL
  /\ text_segment = gst_segment_init("TIME")
  /\ segment = gst_segment_init("TIME")
  /\ waiting = {}
  /\ tpc = "idle" /\ tbuf = NULL
  /\ vpc = "idle" /\ vbuf = NULL
  /\ returned = NoCall
  /\ unrefs = [i \in 1 .. MaxInputs |-> 0]
  /\ out = << >>
  /\ ninputs = 0
  /\ unlocked = {}
  /\ call = NoCall

\* the text peer pushes a buffer while the video peer has at least one frame
\* left that video_chain has not been called with: gst_base_text_overlay_text_chain
text_chain_while_streaming ==
  /\ segment.position + 2 <= VideoHorizon
  /\ gst_base_text_overlay_text_chain

\* text buffers arrive while the video stream runs; no event, no state change
NextStreaming ==
  \/ text_chain_while_streaming
  \/ gst_base_text_overlay_text_chain_woken
  \/ video_chain_next_frame
  \/ gst_base_text_overlay_video_chain_loop
  \/ gst_base_text_overlay_video_chain_pop
  \/ gst_base_text_overlay_video_chain_position
  \/ g_cond_wait_spurious_wakeup

\* the video peer keeps pushing and both streaming threads run on when they can
SpecStreaming ==
  /\ InitStreaming /\ [][NextStreaming]_vars
  /\ WF_vars(video_chain_next_frame)
  /\ WF_vars(gst_base_text_overlay_video_chain_loop)
  /\ WF_vars(gst_base_text_overlay_video_chain_pop)
  /\ WF_vars(gst_base_text_overlay_video_chain_position)
  /\ WF_vars(gst_base_text_overlay_text_chain_woken)

(* ------------------------------- claims -------------------------------- *)
\* the functions that call gst_base_text_overlay_pop_text
PopCallers == {"pop_text", "text_event", "change_state"}

\* C1: the pending slot holds at most one item; an item in the slot is never
\* overwritten: it leaves the slot only through pop_text, which releases it, and
\* an item enters the slot only when text_chain stores it into the empty slot.
C1_SlotItemNeverOverwritten ==
  [][ /\ (text_buffer # NULL /\ text_buffer' # text_buffer) =>
           /\ text_buffer' = NULL
           /\ returned'.fn \in PopCallers
           /\ unrefs' = [unrefs EXCEPT ![text_buffer.id] = 1]
      /\ (text_buffer' # NULL /\ text_buffer' # text_buffer) =>
           /\ text_buffer = NULL
           /\ returned'.fn = "text_chain" /\ returned'.stored
           /\ text_buffer'.id = returned'.pushed.id
           /\ unrefs'[text_buffer'.id] = 0 ]_vars

\* a push that found the slot occupied has waited and then stored its item
C1_Witness ==
  /\ returned.fn = "text_chain" /\ returned.waited /\ returned.stored
  /\ text_buffer # NULL /\ text_buffer.id = returned.pushed.id

\* the step in which text_chain is called: it runs to its return or its first wait
TextChainCalled == tpc = "idle" /\ (tpc' = "wait" \/ returned'.fn = "text_chain")

\* the buffer handed to the call of text_chain made in this step
TextChainPushed == IF tpc' = "wait" THEN tbuf'.pushed ELSE returned'.pushed

\* C2: text_chain called while text_flushing is set returns FLUSHING, and called
\* while text_eos is set and text_flushing is not returns EOS (so FLUSHING when
\* both are set); it returns without blocking, the pushed buffer is released, and
\* text_buffer, need_render and the text segment (its position) are unchanged.
C2_PushWhileFlushingOrEos ==
  [][ TextChainCalled /\ (text_flushing \/ text_eos) =>
        /\ tpc' = "idle" /\ "text" \notin waiting'
        /\ returned'.fn = "text_chain"
        /\ returned'.ret = IF text_flushing THEN "FLUSHING" ELSE "EOS"
        /\ ~returned'.waited /\ ~returned'.stored
        /\ unrefs' = [unrefs EXCEPT ![returned'.pushed.id] = 1]
        /\ UNCHANGED <<text_buffer, need_render, text_segment>> ]_vars

\* a push made with both text_flushing and text_eos set has returned FLUSHING
C2_Witness ==
  /\ returned.fn = "text_chain" /\ returned.ret = "FLUSHING" /\ ~returned.waited
  /\ text_flushing /\ text_eos
  /\ unrefs[returned.pushed.id] = 1

\* the interval [ts, ts + dur) of a text buffer does not intersect the text
\* segment [start, stop)
OutOfTextSegment(buffer) ==
  /\ text_segment.format = "TIME"
  /\ GST_CLOCK_TIME_IS_VALID(buffer.ts)
  /\ \/ GST_CLOCK_TIME_IS_VALID(buffer.dur)
        /\ buffer.ts + buffer.dur <= text_segment.start
     \/ GST_CLOCK_TIME_IS_VALID(text_segment.stop)
        /\ buffer.ts >= text_segment.stop

\* C3: text_chain called (neither flushing nor EOS) with a buffer whose interval
\* does not intersect the text segment returns OK without blocking, also when
\* text_buffer is occupied; the buffer is released, text_buffer, need_render and
\* the text segment are unchanged and no waiter is woken.
C3_PushOutOfSegment ==
  [][ /\ TextChainCalled /\ ~text_flushing /\ ~text_eos
      /\ OutOfTextSegment(TextChainPushed)
      => /\ tpc' = "idle"
         /\ returned'.fn = "text_chain" /\ returned'.ret = "OK"
         /\ ~returned'.waited /\ ~returned'.stored
         /\ unrefs' = [unrefs EXCEPT ![returned'.pushed.id] = 1]
         /\ UNCHANGED <<text_buffer, need_render, text_segment, waiting>> ]_vars

\* a buffer outside the text segment was pushed while text_buffer was occupied:
\* the call has returned OK and released it
C3_Witness ==
  /\ returned.fn = "text_chain" /\ returned.ret = "OK" /\ ~returned.stored
  /\ OutOfTextSegment(returned.pushed)
  /\ text_buffer # NULL /\ text_buffer.id # returned.pushed.id
  /\ unrefs[returned.pushed.id] = 1

\* C4: a pushed buffer with valid timestamp ts and duration d that text_chain
\* stores has its interval clipped to the text segment [start, stop): the stored
\* timestamp is max(ts, start) and the stored end is min(ts + d, stop).
C4_StoredIntervalClipped ==
  ( /\ returned.fn = "text_chain" /\ returned.stored /\ ~returned.waited
    /\ valid_text_time(returned.pushed) )
  => /\ text_buffer.ts = Max(returned.pushed.ts, text_segment.start)
     /\ text_buffer.ts + text_buffer.dur =
          Min(returned.pushed.ts + returned.pushed.dur, text_segment.stop)

\* the step in which text_chain continues after g_cond_wait has returned
TextChainWoken ==
  /\ tpc = "wait" /\ "text" \notin waiting
  /\ (returned'.fn = "text_chain" \/ "text" \in waiting')

\* C5: a push of an in-segment buffer that finds text_buffer occupied blocks in
\* g_cond_wait and stays there until it is woken; after every wake it re-checks:
\* text_flushing set: it returns FLUSHING and stores nothing; text_buffer still
\* occupied: it waits again; text_buffer empty: it stores its buffer, sets
\* need_render, sets the text segment position to the buffer's timestamp, and
\* broadcasts, which wakes a video thread waiting for a text buffer.
C5_BlockedPushRechecks ==
  [][ /\ ( /\ TextChainCalled /\ ~text_flushing /\ ~text_eos
            /\ text_segment.format = "TIME"
            /\ ~OutOfTextSegment(TextChainPushed) )
          => (tpc' = "wait" <=> text_buffer # NULL)
      /\ (TextChainCalled /\ tpc' = "wait")
          => /\ "text" \in waiting'
             /\ UNCHANGED <<text_buffer, need_render, text_segment, unrefs>>
      /\ (tpc = "wait" /\ "text" \in waiting)
          => (tpc' = "wait" /\ tbuf' = tbuf /\ returned'.fn # "text_chain")
      /\ TextChainWoken =>
           IF text_flushing THEN
             /\ tpc' = "idle"
             /\ returned'.fn = "text_chain" /\ returned'.ret = "FLUSHING"
             /\ ~returned'.stored
             /\ unrefs' = [unrefs EXCEPT ![tbuf.buffer.id] = 1]
             /\ UNCHANGED <<text_buffer, need_render, text_segment>>
           ELSE IF text_buffer # NULL THEN
             /\ tpc' = "wait" /\ "text" \in waiting' /\ tbuf' = tbuf
             /\ UNCHANGED <<text_buffer, need_render, text_segment, unrefs>>
           ELSE
             /\ tpc' = "idle"
             /\ returned'.fn = "text_chain" /\ returned'.ret = "OK"
             /\ returned'.stored
             /\ text_buffer' = tbuf.buffer
             /\ need_render'
             /\ text_segment' =
                  IF GST_CLOCK_TIME_IS_VALID(tbuf.buffer.ts)
                    THEN [text_segment EXCEPT !.position = tbuf.buffer.ts]
                  ELSE text_segment
             /\ waiting' = {}
             /\ UNCHANGED unrefs ]_vars

\* a blocked push has stored its buffer after a wake, and its broadcast has woken
\* the video thread that was waiting for a text buffer
C5_Witness ==
  /\ returned.fn = "text_chain" /\ returned.waited /\ returned.stored
  /\ text_buffer # NULL /\ text_buffer.id = returned.pushed.id /\ need_render
  /\ text_segment.position = text_buffer.ts
  /\ vpc = "wait" /\ waiting = {}

\* the step has called gst_base_text_overlay_pop_text: from video_chain, from the
\* FLUSH_STOP of the text pad or from the PAUSED_TO_READY state change
PopTextCalled ==
  \/ returned'.fn = "pop_text"
  \/ returned'.fn = "text_event" /\ returned'.type = "FLUSH_STOP"
  \/ returned'.fn = "change_state" /\ returned'.transition = "PAUSED_TO_READY"

\* gst_base_text_overlay_pop_text called in this state would change nothing
PopTextChangesNothing ==
  /\ pop_text_buffer(text_buffer) = text_buffer
  /\ pop_text_unrefs(text_buffer) = unrefs
  /\ GST_BASE_TEXT_OVERLAY_BROADCAST(waiting) = waiting

\* C6: pop_text always leaves text_buffer empty and broadcasts (no thread is left
\* in g_cond_wait); it releases the buffer it removes; called from video_chain
\* with text_buffer already empty it changes no flag, segment, need_render or
\* output; a second pop_text right after a pop_text changes nothing.
C6_PopClearsAndBroadcasts ==
  [][ /\ PopTextCalled =>
           /\ text_buffer' = NULL
           /\ waiting' = {}
           /\ unrefs' = IF text_buffer # NULL
                          THEN [unrefs EXCEPT ![text_buffer.id] = 1] ELSE unrefs
           /\ PopTextChangesNothing'
      /\ (returned'.fn = "pop_text" /\ text_buffer = NULL) =>
           UNCHANGED <<shared, unrefs, out, elem_state>> ]_vars

\* video_chain has called pop_text on a slot that was already empty
C6_Witness ==
  /\ returned.fn = "pop_text" /\ returned.popped = NULL
  /\ text_buffer = NULL /\ waiting = {}

\* the step in which the video thread takes the lock at wait_for_text_buf, on
\* entry, after a stale text buffer was popped, or after g_cond_wait has returned
VideoChainLoopTaken ==
  /\ (vpc = "loop" \/ (vpc = "wait" /\ "video" \notin waiting))
  /\ (vpc' # vpc \/ returned'.fn = "pop_text" \/ "video" \in waiting')

\* C7: every time video_chain takes the lock at wait_for_text_buf: with
\* video_flushing set it returns FLUSHING, else with video_eos set it returns EOS
\* (FLUSHING when both are set); the video buffer is discarded, nothing is pushed
\* downstream, and text_buffer, need_render and the rendered image are unchanged.
C7_VideoLoopFlushingOrEos ==
  [][ VideoChainLoopTaken /\ (video_flushing \/ video_eos) =>
        /\ vpc' = "idle" /\ "video" \notin waiting'
        /\ returned' = [fn |-> "video_chain",
                        ret |-> IF video_flushing THEN "FLUSHING" ELSE "EOS",
                        id |-> vbuf.id, pushed |-> FALSE]
        /\ UNCHANGED <<out, text_buffer, need_render, text_image, unrefs>> ]_vars

\* a video buffer reached the loop with both video_flushing and video_eos set
\* and was discarded with FLUSHING
C7_Witness ==
  /\ returned.fn = "video_chain" /\ returned.ret = "FLUSHING" /\ ~returned.pushed
  /\ video_flushing /\ video_eos
  /\ out = << >>

\* the running interval [vs, ve) of the video buffer: the running times of the
\* start and the end of its interval after clipping to the video segment
RunningVs == gst_segment_to_running_time(segment, vbuf.clip_start)
RunningVe == gst_segment_to_running_time(segment, Min(vbuf.stop, segment.stop))

\* the running interval [ts, te) of a text buffer with valid stamps
RunningTs(buffer) == gst_segment_to_running_time(text_segment, buffer.ts)
RunningTe(buffer) == gst_segment_to_running_time(text_segment,
                                                 buffer.ts + buffer.dur)

\* the video thread takes the lock at wait_for_text_buf and gets as far as the
\* comparison of the queued text buffer, which has a valid running interval, with
\* its video buffer
VideoChainComparesText ==
  /\ VideoChainLoopTaken
  /\ ~video_flushing /\ ~video_eos /\ ~silent /\ text_linked
  /\ text_buffer # NULL /\ valid_text_time(text_buffer)
  /\ GST_CLOCK_TIME_IS_VALID(RunningTs(text_buffer))
  /\ GST_CLOCK_TIME_IS_VALID(RunningTe(text_buffer))
  /\ GST_CLOCK_TIME_IS_VALID(RunningVs) /\ GST_CLOCK_TIME_IS_VALID(RunningVe)

\* C8: when the queued text buffer has a valid running interval [ts, te) with
\* te <= vs, video_chain pops (and releases) the text buffer, pushes nothing and
\* goes back to wait_for_text_buf with the same video buffer, whether or not
\* ve <= ts holds too; a released text buffer is never in the slot again.
C8_StaleTextDropped ==
  [][ /\ (VideoChainComparesText /\ RunningTe(text_buffer) <= RunningVs)
          => /\ text_buffer' = NULL
             /\ unrefs' = [unrefs EXCEPT ![text_buffer.id] = 1]
             /\ returned' = [fn |-> "pop_text", at |-> "too old",
                             popped |-> text_buffer]
             /\ vpc' = "loop" /\ vbuf' = vbuf
             /\ UNCHANGED <<out, need_render, text_image>>
      /\ (text_buffer' # NULL => unrefs'[text_buffer'.id] = 0) ]_vars

\* a stale text buffer was popped with its running end equal to the running
\* start of the video buffer, which is back at wait_for_text_buf
C8_Witness ==
  /\ returned.fn = "pop_text" /\ returned.at = "too old"
  /\ vpc = "loop" /\ out = << >>
  /\ RunningTe(returned.popped) = RunningVs
  /\ GST_CLOCK_TIME_IS_VALID(RunningVs)
  /\ text_buffer = NULL /\ unrefs[returned.popped.id] = 1

\* C9: when the queued text buffer has a valid running interval [ts, te) that is
\* not stale (te > vs) and ve <= ts, video_chain pushes the video buffer
\* unmodified and does not block; text_buffer holds the same buffer afterwards
\* and need_render and the rendered image are unchanged.
C9_FutureTextKept ==
  [][ ( /\ VideoChainComparesText
        /\ RunningTe(text_buffer) > RunningVs
        /\ RunningVe <= RunningTs(text_buffer) )
      => /\ out' = Append(out, [vid |-> vbuf.id, overlay |-> NULL])
         /\ vpc' = "position" /\ "video" \notin waiting'
         /\ UNCHANGED <<text_buffer, need_render, text_image, unrefs, waiting>>
    ]_vars

\* push_frame has released the video buffer it could not map, and pushed nothing
FrameNotMapped ==
  returned'.fn = "push_frame" /\ ~returned'.pushed /\ out' = out

\* C10: when the queued text buffer has a valid running interval [ts, te) that
\* overlaps [vs, ve) (te > vs and ts < ve), video_chain renders the text of that
\* buffer (only if need_render is set) and pushes the video buffer composited
\* with it; afterwards it pops the text buffer if and only if te <= ve, and
\* otherwise the same buffer stays queued.
C10_OverlapComposited ==
  [][ /\ ( /\ VideoChainComparesText
            /\ RunningTe(text_buffer) > RunningVs
            /\ RunningTs(text_buffer) < RunningVe )
          => /\ \/ out' = Append(out, [vid |-> vbuf.id,
                                       overlay |-> BufferText(text_buffer)])
                \/ FrameNotMapped
             /\ text_image' = IF need_render THEN BufferText(text_buffer)
                              ELSE text_image
             /\ ~need_render'
             /\ text_buffer' = text_buffer
             /\ vpc' = IF RunningTe(text_buffer) <= RunningVe THEN "pop"
                       ELSE "position"
      /\ (vpc = "pop" /\ vpc' # "pop") => text_buffer' = NULL ]_vars

\* the video thread takes the lock at wait_for_text_buf and finds a text buffer
\* queued on the linked text pad
VideoChainFindsText ==
  /\ VideoChainLoopTaken
  /\ ~video_flushing /\ ~video_eos /\ ~silent /\ text_linked
  /\ text_buffer # NULL

\* C11: when the queued text buffer has an invalid timestamp or duration,
\* video_chain pushes the current video buffer composited with the text of that
\* buffer, whatever the interval of the video buffer, and then pops the text
\* buffer; it never takes the stale branch or the future branch for it.
C11_InvalidStampedTextConsumed ==
  [][ /\ (VideoChainFindsText /\ ~valid_text_time(text_buffer))
          => /\ \/ out' = Append(out, [vid |-> vbuf.id,
                                       overlay |-> BufferText(text_buffer)])
                \/ FrameNotMapped
             /\ returned'.fn = "push_frame" /\ returned'.at = "text"
             /\ text_buffer' = text_buffer
             /\ vpc' = "pop"
      /\ (vpc = "pop" /\ vpc' # "pop") => text_buffer' = NULL ]_vars

\* the video thread takes the lock at wait_for_text_buf and finds no text buffer
\* queued on the linked text pad
VideoChainFindsNoText ==
  /\ VideoChainLoopTaken
  /\ ~video_flushing /\ ~video_eos /\ ~silent /\ text_linked
  /\ text_buffer = NULL

\* text EOS, wait-text disabled, or the running time of the start or of the
\* position of the text segment exceeds the running time t
NoTextExpectedBefore(t) ==
  \/ text_eos
  \/ ~wait_text
  \/ /\ text_segment.format = "TIME"
     /\ LET text_start == gst_segment_to_running_time(text_segment,
                                                      text_segment.start)
            text_position == gst_segment_to_running_time(text_segment,
                                                         text_segment.position)
        IN \/ GST_CLOCK_TIME_IS_VALID(text_start) /\ text_start > t
           \/ GST_CLOCK_TIME_IS_VALID(text_position) /\ text_position > t

\* with no text buffer queued video_chain pushes its buffer unmodified without
\* blocking if no text is expected before the running time t, and otherwise
\* waits; it stays in the wait until woken
EmptySlotDecision(t) ==
  /\ VideoChainFindsNoText =>
       IF NoTextExpectedBefore(t) THEN
         /\ out' = Append(out, [vid |-> vbuf.id, overlay |-> NULL])
         /\ vpc' = "position" /\ "video" \notin waiting'
         /\ UNCHANGED <<text_buffer, render, unrefs>>
       ELSE
         /\ vpc' = "wait" /\ "video" \in waiting' /\ vbuf' = vbuf
         /\ UNCHANGED <<out, text_buffer, render, unrefs>>
  /\ (vpc = "wait" /\ "video" \in waiting) =>
       (vpc' = "wait" /\ vbuf' = vbuf /\ out' = out)

\* C12 (as stated): with the text pad linked and no text buffer queued,
\* video_chain pushes the video buffer [vs, ve) unmodified without blocking if
\* text_eos is set, wait_text is off, or the running time of the text segment's
\* start or position exceeds ve; otherwise it blocks until woken and re-enters
\* the loop.
C12_EmptySlotComparesVe == [][EmptySlotDecision(RunningVe)]_vars

\* C12 (amended): the same with the running time of the text segment's start or
\* position compared with vs, the running time of the clipped start of the video
\* buffer.
C12_EmptySlotComparesVs == [][EmptySlotDecision(RunningVs)]_vars

\* a video buffer was pushed without waiting because the text position lies
\* after its start, though not after its end
C12_Witness ==
  /\ returned.fn = "gst_pad_push" /\ returned.at = "no text"
  /\ ~text_eos /\ wait_text /\ text_linked /\ text_buffer = NULL
  /\ GST_CLOCK_TIME_IS_VALID(RunningVe)
  /\ LET text_position == gst_segment_to_running_time(text_segment,
                                                      text_segment.position)
     IN RunningVs < text_position /\ text_position <= RunningVe

\* C13: with the text pad not linked and a non-empty default text set, every
\* time video_chain takes the lock at wait_for_text_buf (not flushing, not EOS,
\* not silent) it pushes its video buffer composited with the default text and
\* does not wait, whatever text_buffer and the text flags are.
C13_UnlinkedDefaultTextComposited ==
  [][ ( /\ VideoChainLoopTaken
        /\ ~video_flushing /\ ~video_eos /\ ~silent
        /\ ~text_linked /\ has_default_text )
      => /\ \/ out' = Append(out, [vid |-> vbuf.id, overlay |-> DefaultText])
            \/ FrameNotMapped
         /\ returned'.fn = "push_frame" /\ returned'.at = "not linked"
         /\ vpc' = "position" /\ "video" \notin waiting'
         /\ UNCHANGED <<text_buffer, unrefs>> ]_vars

\* C14: with silent set, every time video_chain takes the lock at
\* wait_for_text_buf (not flushing, not EOS) it pushes its video buffer
\* unmodified and does not wait, whether or not the text pad is linked and
\* whatever text_buffer holds; text_buffer, need_render and the rendered image
\* are unchanged.
C14_SilentPassesThrough ==
  [][ (VideoChainLoopTaken /\ ~video_flushing /\ ~video_eos /\ silent)
      => /\ out' = Append(out, [vid |-> vbuf.id, overlay |-> NULL])
         /\ returned' = [fn |-> "gst_pad_push", at |-> "silent"]
         /\ vpc' = "position" /\ "video" \notin waiting'
         /\ UNCHANGED <<text_buffer, need_render, text_image, unrefs, waiting>>
    ]_vars

\* with silent set a video buffer was pushed unmodified past a queued text
\* buffer that overlaps it and has not been rendered
C14_Witness ==
  /\ returned.fn = "gst_pad_push" /\ returned.at = "silent"
  /\ silent /\ text_linked /\ text_buffer # NULL /\ need_render
  /\ valid_text_time(text_buffer)
  /\ RunningTe(text_buffer) > RunningVs /\ RunningTs(text_buffer) < RunningVe
  /\ out = << [vid |-> vbuf.id, overlay |-> NULL] >>

\* the step is the FLUSH_START handler of the text pad, of the video pad
TextFlushStart == returned'.fn = "text_event" /\ returned'.type = "FLUSH_START"
VideoFlushStart == returned'.fn = "video_event" /\ returned'.type = "FLUSH_START"

\* the step in which a video thread that was in g_cond_wait runs again
VideoChainWoken == vpc = "wait" /\ VideoChainLoopTaken

\* a FLUSH_START sets the flushing flag of its pad and leaves no thread in
\* g_cond_wait; no thread is in g_cond_wait in text_chain with text_flushing
\* set, or in video_chain with video_flushing set
FlushStartWakes ==
  /\ TextFlushStart => (text_flushing' /\ waiting' = {})
  /\ VideoFlushStart => (video_flushing' /\ waiting' = {})
  /\ (tpc' = "wait" /\ text_flushing') => "text" \notin waiting'
  /\ (vpc' = "wait" /\ video_flushing') => "video" \notin waiting'

\* the woken thread returns FLUSHING in its first step, without storing or
\* pushing anything
TextChainWokenReturnsFlushing ==
  /\ tpc' = "idle"
  /\ returned'.fn = "text_chain" /\ returned'.ret = "FLUSHING"
  /\ UNCHANGED text_buffer
VideoChainWokenReturnsFlushing ==
  /\ vpc' = "idle"
  /\ returned'.fn = "video_chain" /\ returned'.ret = "FLUSHING"
  /\ UNCHANGED out

\* C15 (as stated): a FLUSH_START on either pad sets that pad's flushing flag
\* and wakes all waiters, and any thread that was blocked, the text thread in
\* text_chain or the video thread waiting for a text buffer, returns FLUSHING
\* in its first step after the wake.
C15_FlushStartUnblocksEveryThread ==
  [][ /\ FlushStartWakes
      /\ (TextChainWoken /\ (text_flushing \/ video_flushing))
          => TextChainWokenReturnsFlushing
      /\ (VideoChainWoken /\ (text_flushing \/ video_flushing))
          => VideoChainWokenReturnsFlushing ]_vars

\* C15 (amended): a FLUSH_START on either pad sets that pad's flushing flag and
\* wakes all waiters; the thread of that pad, if it was blocked, returns
\* FLUSHING in its first step after the wake.
C15_FlushStartUnblocksOwnThread ==
  [][ /\ FlushStartWakes
      /\ (TextChainWoken /\ text_flushing) => TextChainWokenReturnsFlushing
      /\ (VideoChainWoken /\ video_flushing) => VideoChainWokenReturnsFlushing
    ]_vars

\* a text thread that was blocked in text_chain has returned FLUSHING, its
\* buffer released and the queued buffer still in the slot
C15_Witness ==
  /\ returned.fn = "text_chain" /\ returned.ret = "FLUSHING" /\ returned.waited
  /\ text_flushing /\ tpc = "idle" /\ "text" \notin waiting
  /\ unrefs[returned.pushed.id] = 1
  /\ text_buffer # NULL

\* the step is the FLUSH_STOP handler of the text pad, of the video pad
TextFlushStop == returned'.fn = "text_event" /\ returned'.type = "FLUSH_STOP"
VideoFlushStop == returned'.fn = "video_event" /\ returned'.type = "FLUSH_STOP"

\* a time segment in its initial state
InitialTimeSegment ==
  [format |-> "TIME", start |-> 0, stop |-> GST_CLOCK_TIME_NONE, position |-> 0,
   base |-> 0]

\* the FLUSH_STOP of the text pad clears the text flags, empties the slot
\* (releasing the buffer) and resets the text segment
TextFlushStopResets ==
  TextFlushStop =>
    /\ ~text_flushing' /\ ~text_eos'
    /\ text_buffer' = NULL
    /\ unrefs' = IF text_buffer # NULL
                   THEN [unrefs EXCEPT ![text_buffer.id] = 1] ELSE unrefs
    /\ text_segment' = InitialTimeSegment

\* the FLUSH_STOP of the video pad clears the video flags and resets the video
\* segment
VideoFlushStopResets ==
  VideoFlushStop =>
    /\ ~video_flushing' /\ ~video_eos'
    /\ segment' = InitialTimeSegment

\* C16 (as stated): a FLUSH_STOP on a pad clears that pad's flushing and eos
\* flags, empties the slot and resets that pad's segment; after it the slot is
\* empty.
C16_FlushStopEmptiesSlot ==
  [][ /\ TextFlushStopResets /\ VideoFlushStopResets
      /\ (TextFlushStop \/ VideoFlushStop) => text_buffer' = NULL ]_vars

\* C16 (amended): the FLUSH_STOP of the text pad clears the text flags, empties
\* the slot and resets the text segment; the FLUSH_STOP of the video pad clears
\* the video flags and resets the video segment and leaves the slot, the text
\* flags and the text segment as they are.
C16_FlushStopPerPad ==
  [][ /\ TextFlushStopResets /\ VideoFlushStopResets
      /\ TextFlushStop => UNCHANGED <<video_flushing, video_eos, segment>>
      /\ VideoFlushStop =>
           UNCHANGED <<text_buffer, unrefs, text_flushing, text_eos, text_segment,
                       waiting>> ]_vars

\* after a FLUSH_STOP on the text pad a buffer that was queued is released, the
\* slot is empty and the text segment is reset
C16_Witness ==
  /\ returned.fn = "text_event" /\ returned.type = "FLUSH_STOP"
  /\ text_buffer = NULL /\ \E i \in 1 .. MaxInputs : unrefs[i] = 1
  /\ ~text_flushing /\ ~text_eos /\ text_segment = InitialTimeSegment

TextEos == returned'.fn = "text_event" /\ returned'.type = "EOS"
VideoEos == returned'.fn = "video_event" /\ returned'.type = "EOS"

\* video_chain was blocked in g_cond_wait when the EOS of the text pad was handled
VideoChainBlockedAtTextEos ==
  /\ returned.fn = "text_event" /\ returned.type = "EOS"
  /\ vpc = "wait"

\* the EOS of the text pad sets text_eos and leaves no thread in g_cond_wait;
\* video_chain is never in g_cond_wait with text_eos set; when it takes the lock
\* again with text_eos set and no text buffer queued (not flushing, not EOS, text
\* pad linked) it pushes its video buffer unmodified
TextEosWakes ==
  /\ TextEos => (text_eos' /\ waiting' = {})
  /\ "video" \in waiting' => ~text_eos'
  /\ (VideoChainWoken /\ VideoChainFindsNoText /\ text_eos) =>
       /\ out' = Append(out, [vid |-> vbuf.id, overlay |-> NULL])
       /\ vpc' = "position" /\ "video" \notin waiting'
       /\ UNCHANGED <<text_buffer, render, unrefs>>

\* video_chain blocked at the EOS of the text pad leaves g_cond_wait for good,
\* unless a new SEGMENT on the text pad clears text_eos first
TextEosEndsWait == VideoChainBlockedAtTextEos ~> (vpc # "wait" \/ ~text_eos)

\* C17 (as stated): an EOS on either pad sets that pad's eos flag and wakes all
\* waiters; a video_chain blocked waiting for text when the text EOS arrives
\* wakes, pushes its video buffer unmodified and does not wait forever.
C17_EosWakesWaiters ==
  /\ [][ /\ TextEosWakes
         /\ VideoEos => (video_eos' /\ waiting' = {}) ]_vars
  /\ TextEosEndsWait

\* C17 (amended): the EOS of the text pad sets text_eos and wakes all waiters; a
\* video_chain blocked waiting for text then wakes, pushes its video buffer
\* unmodified when it finds text_eos still set and the slot empty, and does not
\* wait forever. The EOS of the video pad sets video_eos and wakes nobody.
C17_TextEosWakesWaiters ==
  /\ [][ /\ TextEosWakes
         /\ VideoEos => (video_eos' /\ UNCHANGED waiting) ]_vars
  /\ TextEosEndsWait

\* the EOS of the text pad has just been handled while video_chain was in
\* g_cond_wait with no text buffer queued, and video_chain has been woken
C17_Witness ==
  /\ VideoChainBlockedAtTextEos
  /\ text_eos /\ waiting = {} /\ text_buffer = NULL /\ text_linked
  /\ ~video_flushing /\ ~video_eos

PausedToReady ==
  returned'.fn = "change_state" /\ returned'.transition = "PAUSED_TO_READY"
ParentPausedToReady ==
  returned'.fn = "parent_change_state" /\ returned'.transition = "PAUSED_TO_READY"
ReadyToPaused ==
  returned'.fn = "change_state" /\ returned'.transition = "READY_TO_PAUSED"

\* PAUSED_TO_READY, before the transition of the parent class: both flushing
\* flags are set, the slot is emptied and no thread is left in g_cond_wait
PausedToReadyFlushes ==
  PausedToReady =>
    /\ elem_state = "PAUSED" /\ elem_state' = "PAUSED_TO_READY"
    /\ text_flushing' /\ video_flushing'
    /\ text_buffer' = NULL /\ waiting' = {}

\* a thread woken while the element goes to READY returns FLUSHING when it
\* finds the flushing flag of its pad still set
WokenGoingToReadyReturnsFlushing ==
  /\ (elem_state = "PAUSED_TO_READY" /\ TextChainWoken /\ text_flushing) =>
       TextChainWokenReturnsFlushing
  /\ (elem_state = "PAUSED_TO_READY" /\ VideoChainWoken /\ video_flushing) =>
       VideoChainWokenReturnsFlushing

OutInArrivalOrder ==
  \A i, j \in 1 .. Len(out) : i < j => out[i].vid < out[j].vid

\* video_chain takes the lock at wait_for_text_buf and goes on to handle its
\* video buffer: it does not return FLUSHING or EOS, does not wait and does not
\* only pop a stale text buffer
VideoChainHandlesBuffer ==
  VideoChainLoopTaken /\ vpc' \in {"pop", "position"}

\* one buffer is pushed downstream: the video buffer of the running video_chain
VideoBufferPushed ==
  /\ Len(out') = Len(out) + 1
  /\ SubSeq(out', 1, Len(out)) = out
  /\ out'[Len(out')].vid = vbuf.id

\* nothing is pushed downstream but by video_chain handling its video buffer,
\* and what is pushed is in arrival order
OnlyVideoChainPushes ==
  /\ OutInArrivalOrder'
  /\ out' # out => (VideoChainHandlesBuffer /\ VideoBufferPushed)

\* C19 (as stated): the buffers pushed downstream are in the arrival order of
\* the video buffers, each at most once, and every video buffer video_chain
\* handles is pushed, exactly once, whatever the text buffers are.
C19_EveryHandledBufferPushed ==
  [][ /\ OnlyVideoChainPushes
      /\ VideoChainHandlesBuffer => VideoBufferPushed ]_vars

\* C19 (amended): the same, except that a video buffer push_frame cannot map
\* for blending is released and not pushed, and video_chain goes on as if it
\* had been pushed.
C19_EveryMappedBufferPushed ==
  [][ /\ OnlyVideoChainPushes
      /\ VideoChainHandlesBuffer => (VideoBufferPushed \/ FrameNotMapped) ]_vars

\* two video buffers have been pushed, the second one by the video_chain call
\* that has just returned
C19_Witness ==
  /\ Len(out) = 2 /\ out[1].vid < out[2].vid
  /\ returned.fn = "video_chain" /\ returned.ret = "OK" /\ returned.pushed
  /\ returned.id = out[2].vid

\* the text buffer lies fully inside the text segment
FullyInsideTextSegment(buffer) ==
  /\ text_segment.format = "TIME"
  /\ valid_text_time(buffer)
  /\ text_segment.start <= buffer.ts
  /\ \/ ~GST_CLOCK_TIME_IS_VALID(text_segment.stop)
     \/ buffer.ts + buffer.dur <= text_segment.stop

\* the running interval [ts, te) of the queued text buffer lies within the
\* running interval [vs, ve) of the video buffer: with video buffers that follow
\* one another it overlaps this one and no other
OverlapsThisVideoBufferOnly ==
  /\ RunningVs <= RunningTs(text_buffer)
  /\ RunningTs(text_buffer) < RunningTe(text_buffer)
  /\ RunningTe(text_buffer) <= RunningVe

\* C20: a queued text buffer that lies fully inside the text segment and
\* overlaps the interval of the video buffer video_chain is called with, and of
\* no other, is composited on that video buffer (unless push_frame cannot map
\* it) and popped right after, so it is composited exactly once.
C20_ContainedTextCompositedOnce ==
  [][ /\ ( /\ VideoChainComparesText
            /\ FullyInsideTextSegment(text_buffer)
            /\ OverlapsThisVideoBufferOnly )
          => /\ \/ /\ VideoBufferPushed
                   /\ out'[Len(out')].overlay # NULL
                \/ FrameNotMapped
             /\ text_buffer' = text_buffer
             /\ vpc' = "pop"
      /\ (vpc = "pop" /\ vpc' # "pop") => text_buffer' = NULL ]_vars

\* gst_base_text_overlay_render_text is called: once in every video_chain that
\* goes to push_frame
RenderTextCalled == returned'.fn = "push_frame"

\* the style or the text to render changes: a property is written, the caps
\* bring a new frame size, or text_chain stores a new text buffer
StyleOrContentChanged ==
  \/ returned'.fn = "set_property"
  \/ returned'.fn = "video_event" /\ returned'.type = "CAPS"
     /\ returned'.size_changed
  \/ returned'.fn = "text_chain" /\ returned'.stored

\* need_render is set by a property write and by a stored text buffer, and is
\* clear after render_text, which renders only when it finds need_render set and
\* else keeps the image it has
DirtyFlagSetAndCleared ==
  /\ (returned'.fn = "set_property" \/
      (returned'.fn = "text_chain" /\ returned'.stored)) => need_render'
  /\ RenderTextCalled =>
       /\ ~need_render'
       /\ ~need_render => text_image' = text_image
       /\ need_render =>
            text_image' = IF text_linked THEN BufferText(text_buffer)
                          ELSE DefaultText

\* C21: need_render is set when the style changes or a text buffer is stored and
\* cleared by render_text; once cleared it stays clear until the style or the
\* text changes, so that video_chain calls with the same text and style render
\* on the first call only and use the image of the first call afterwards.
C21_RenderOncePerChange ==
  [][ /\ DirtyFlagSetAndCleared
      /\ (~need_render /\ need_render') => StyleOrContentChanged ]_vars

\* the last step was one of the pad link functions
PadLinkFunction == returned.fn \in {"text_pad_link", "text_pad_unlink"}

\* C22: no step of the streaming threads, the event handlers or the property
\* accessors reads or writes text_buffer, a flushing, eos or linked flag, a
\* segment, need_render or the rendered image without holding the mutex of the
\* overlay.
C22_SharedStateUnderMutex == ~PadLinkFunction => unlocked = {}

\* get_pos has returned
GetPosReturned == call.fn = "get_pos" /\ call.done

\* the image at x, of extent image, lies within 0 .. frame
WithinFrame(x, image, frame) == 0 <= x /\ x + image <= frame

\* what get_pos returns is what it computes for the alignment, plus the delta
GetPosAddsDelta ==
  /\ call.xpos = get_pos_x(call.args) + call.args.deltax
  /\ call.ypos = get_pos_y(call.args) + call.args.deltay

\* C23 (as stated): for every alignment, size, padding and position, the
\* coordinates get_pos computes before it adds the deltas place the image within
\* the frame, and it returns those coordinates plus the deltas.
C23_PlacedWithinFrame ==
  GetPosReturned =>
    /\ GetPosAddsDelta
    /\ WithinFrame(call.xpos - call.args.deltax, call.args.image_width,
                   call.args.width)
    /\ WithinFrame(call.ypos - call.args.deltay, call.args.image_height,
                   call.args.height)

\* C23 (amended): get_pos returns the coordinates of the alignment plus the
\* deltas. Before the delta is added, the positional modes keep an image that
\* fits the frame within it, and the horizontal one is never negative, while
\* the vertical one is 0 or frame height minus image height, which is negative,
\* for an image taller than the frame; left,
\* right, top, bottom and baseline are within the frame if and only if padding
\* plus image size does not exceed the frame size, and center if and only if the
\* image fits the frame.
C23_PlacedWithinFrameWhenItFits ==
  GetPosReturned =>
    LET a == call.args
        x == call.xpos - a.deltax
        y == call.ypos - a.deltay
        halign == IF a.use_vertical_render THEN "RIGHT" ELSE a.halign
        valign == IF a.use_vertical_render THEN "TOP" ELSE a.valign
    IN /\ GetPosAddsDelta
       /\ halign = "POS" =>
            /\ 0 <= x
            /\ a.image_width <= a.width => WithinFrame(x, a.image_width, a.width)
       /\ valign = "POS" =>
            /\ a.image_height <= a.height =>
                 WithinFrame(y, a.image_height, a.height)
            /\ a.image_height > a.height =>
                 y \in {0, a.height - a.image_height}
       /\ halign \in {"LEFT", "RIGHT"} =>
            (WithinFrame(x, a.image_width, a.width)
               <=> a.xpad + a.image_width <= a.width)
       /\ valign \in {"TOP", "BOTTOM", "BASELINE"} =>
            (WithinFrame(y, a.image_height, a.height)
               <=> a.ypad + a.image_height <= a.height)
       /\ halign = "CENTER" =>
            (WithinFrame(x, a.image_width, a.width) <=> a.image_width <= a.width)
       /\ valign = "CENTER" =>
            (WithinFrame(y, a.image_height, a.height)
               <=> a.image_height <= a.height)

\* get_pos has returned for a positional alignment in both directions, an image
\* that fits the frame and positions 1.0, where the clamp takes effect
C23_Witness ==
  /\ GetPosReturned
  /\ ~call.args.use_vertical_render
  /\ call.args.halign = "POS" /\ call.args.valign = "POS"
  /\ call.args.xpos = <<1, 1>> /\ call.args.ypos = <<1, 1>>
  /\ call.args.image_width <= call.args.width
  /\ call.args.image_height <= call.args.height
  /\ call.xpos - call.args.deltax = call.args.width - call.args.image_width

\* push_frame has returned
PushFrameReturned == call.fn = "push_frame" /\ call.phase = "done"

\* the last negotiation settled on attaching the composition: the caps carry
\* the overlay composition meta feature (upstream had it or downstream accepted
\* it), they were set on the source pad, and the ALLOCATION query held the meta
DeferredCompositingNegotiated ==
  /\ call.negotiated # NULL
  /\ call.negotiated.original_has_meta \/ call.negotiated.accept_caps
  /\ call.negotiated.set_caps
  /\ call.negotiated.allocation_meta

\* C24 (as stated): push_frame pushes the frame unchanged when there is no
\* composition; with a composition it attaches it as meta, leaving the pixels
\* alone, exactly when attaching was negotiated, and else blends it into the
\* frame.
C24_AttachedOrBlended ==
  PushFrameReturned =>
    call.result = IF call.composition = NULL THEN "pushed unchanged"
                  ELSE IF DeferredCompositingNegotiated
                    THEN "pushed with meta attached"
                  ELSE "pushed with pixels blended"

\* C24 (amended): the same, except that a frame that is to be blended and
\* cannot be mapped is released instead of pushed.
C24_AttachedBlendedOrReleased ==
  PushFrameReturned =>
    IF call.composition = NULL THEN call.result = "pushed unchanged"
    ELSE IF DeferredCompositingNegotiated
      THEN call.result = "pushed with meta attached"
    ELSE call.result \in {"pushed with pixels blended", "released"}

\* push_frame has attached the composition after downstream accepted the meta
\* feature, which the caps of upstream did not carry
C24_Witness ==
  /\ PushFrameReturned
  /\ call.result = "pushed with meta attached"
  /\ call.negotiated.accept_caps /\ ~call.negotiated.original_has_meta

TextStored == returned'.fn = "text_chain" /\ returned'.stored
TextGap == returned'.fn = "text_event" /\ returned'.type = "GAP"
VideoPositionUpdated == returned'.fn = "video_chain" /\ returned'.pushed

\* a FLUSH_STOP leaves the position of the segment of its pad at the start of
\* the segment
FlushStopResetsPosition ==
  /\ TextFlushStop => text_segment'.position = text_segment'.start
  /\ VideoFlushStop => segment'.position = segment'.start

\* C25 (as stated): a stored text buffer, a GAP and a video buffer that was
\* handled never lower the position of the segment of their pad, whatever their
\* stamps are; a FLUSH_STOP resets the position to the start of the segment.
C25_PositionNeverDecreases ==
  [][ /\ (TextStored \/ TextGap) =>
           text_segment'.position >= text_segment.position
      /\ VideoPositionUpdated => segment'.position >= segment.position
      /\ FlushStopResetsPosition ]_vars

\* C25 (amended): a stored text buffer with a timestamp sets the position of
\* the text segment to its clipped start, a GAP sets it to its end (to its
\* start without a duration), a video buffer that was handled sets the position
\* of the video segment to its clipped start: the position decreases when the
\* stamp lies before it. A FLUSH_STOP resets the position to the start of the
\* segment.
C25_PositionFollowsStamps ==
  [][ /\ TextStored =>
           text_segment'.position =
             IF GST_CLOCK_TIME_IS_VALID(text_buffer'.ts) THEN text_buffer'.ts
             ELSE text_segment.position
      /\ TextGap =>
           text_segment'.position =
             IF GST_CLOCK_TIME_IS_VALID(returned'.duration)
               THEN returned'.start + returned'.duration
             ELSE returned'.start
      /\ VideoPositionUpdated => segment'.position = vbuf.clip_start
      /\ FlushStopResetsPosition ]_vars

\* a GAP with a duration has moved the position of the text segment to its end
C25_Witness ==
  /\ returned.fn = "text_event" /\ returned.type = "GAP"
  /\ GST_CLOCK_TIME_IS_VALID(returned.duration)
  /\ text_segment.position = returned.start + returned.duration
  /\ text_segment.position > text_segment.start

\* the text streaming thread is inside text_chain and still owns buffer i
ProducerHolds(i) == tbuf # NULL /\ tbuf.buffer.id = i

\* buffer i is queued in overlay->text_buffer
SlotHolds(i) == text_buffer # NULL /\ text_buffer.id = i

\* the owners of text buffer i plus the number of times it was released
OwnersAndReleases(i) ==
  (IF ProducerHolds(i) THEN 1 ELSE 0) + (IF SlotHolds(i) THEN 1 ELSE 0)
    + unrefs[i]

\* the step is a call of text_chain with buffer i
TextChainCalledWith(i) ==
  /\ tpc = "idle" /\ i = ninputs + 1
  /\ (tpc' = "wait" \/ returned'.fn = "text_chain")

\* text_chain releases buffer i at beach: it found text_flushing or text_eos at
\* its entry, the buffer outside the text segment, or text_flushing after a wait
ReleasedByTextChain(i) ==
  /\ returned'.fn = "text_chain" /\ ~returned'.stored
  /\ returned'.pushed.id = i
  /\ ~SlotHolds(i) /\ ~SlotHolds(i)'
  /\ \/ ~returned'.waited /\ returned'.ret = "FLUSHING" /\ text_flushing
     \/ ~returned'.waited /\ returned'.ret = "EOS" /\ text_eos
     \/ /\ ~returned'.waited /\ returned'.ret = "OK"
        /\ ~text_chain_clip(returned'.pushed).in_seg
     \/ returned'.waited /\ returned'.ret = "FLUSHING" /\ text_flushing

\* pop_text releases buffer i, which was queued: video_chain has displayed it or
\* found it too old, or the text pad got FLUSH_STOP, or the element goes to READY
ReleasedByPopText(i) ==
  /\ PopTextCalled
  /\ SlotHolds(i) /\ text_buffer' = NULL
  /\ ~ProducerHolds(i) /\ ~ProducerHolds(i)'

\* C26: every text buffer handed to text_chain has exactly one owner (the text
\* streaming thread inside text_chain, or the slot) until it is released, and
\* is released at most once: by text_chain itself when it does not store the
\* buffer (flushing, EOS, out of segment, flushing after the wait), or by one
\* pop_text after it was stored; it is never owned by both text_chain and the
\* slot, and never owned after its release.
C26_ReleasedExactlyOnce ==
  [][ \A i \in 1 .. MaxInputs :
        /\ OwnersAndReleases(i)' <= 1
        /\ TextChainCalledWith(i) => OwnersAndReleases(i)' = 1
        /\ OwnersAndReleases(i) = 1 => OwnersAndReleases(i)' = 1
        /\ unrefs'[i] # unrefs[i] =>
             /\ unrefs'[i] = 1
             /\ ReleasedByTextChain(i) \/ ReleasedByPopText(i) ]_vars

\* two buffers were pushed; the first was stored and then released by the
\* pop_text of a state change or FLUSH_STOP, the second was released by
\* text_chain, which had waited for the slot and found text_flushing
C26_Witness ==
  /\ returned.fn = "text_chain" /\ returned.waited /\ ~returned.stored
  /\ unrefs[returned.pushed.id] = 1
  /\ text_buffer = NULL /\ tbuf = NULL
  /\ \E j \in 1 .. MaxInputs : j # returned.pushed.id /\ unrefs[j] = 1

\* the step is a call of video_chain: it runs to the lock at wait_for_text_buf
\* or returns before
VideoChainCalled ==
  /\ vpc = "idle"
  /\ vpc' = "loop" \/ returned'.fn = "video_chain"

\* the interval of a video buffer lies outside the video segment
OutsideVideoSegment(ts, dur) ==
  ~gst_segment_clip(segment, ts,
                    IF GST_CLOCK_TIME_IS_VALID(dur) THEN ts + dur
                    ELSE GST_CLOCK_TIME_NONE).in_seg

\* C27: a video buffer without a timestamp, and a video buffer outside the
\* video segment, never reaches the lock of video_chain: the call returns
\* GST_FLOW_OK at once, pushes nothing, blocks nobody and wakes nobody, and
\* leaves text_buffer, the flags, need_render, the rendered image and both
\* segments (the video position included) as they were.
C27_UnschedulableVideoDropped ==
  [][ /\ (VideoChainCalled /\ vpc' = "loop") =>
           /\ GST_CLOCK_TIME_IS_VALID(vbuf'.start)
           /\ gst_segment_clip(segment, vbuf'.start, vbuf'.stop).in_seg
      /\ (VideoChainCalled /\ vpc' # "loop") =>
           /\ \/ ~GST_CLOCK_TIME_IS_VALID(returned'.ts)
              \/ OutsideVideoSegment(returned'.ts, returned'.dur)
              \/ /\ ~GST_CLOCK_TIME_IS_VALID(returned'.dur)
                 /\ returned'.ts < segment.start
           /\ returned'.ret = "OK" /\ ~returned'.pushed
           /\ vpc' = "idle" /\ vbuf' = NULL
           /\ UNCHANGED <<out, shared, waiting, unrefs, elem_state, tpc, tbuf>>
           /\ unlocked' \subseteq {"segment"} ]_vars

\* with a text buffer queued, a video buffer that has a timestamp but ends where
\* the video segment starts was dropped
C27_Witness ==
  /\ returned.fn = "video_chain" /\ ~returned.pushed /\ returned.ret = "OK"
  /\ vpc = "idle" /\ text_buffer # NULL /\ out = <<>>
  /\ GST_CLOCK_TIME_IS_VALID(returned.ts)
  /\ OutsideVideoSegment(returned.ts, returned.dur)

\* the GAP handler stores no buffer, moves the position of the text segment to
\* the end of the gap (to its start without a duration) and broadcasts
GapMovesPositionAndWakes ==
  TextGap =>
    /\ text_buffer' = text_buffer /\ need_render' = need_render
    /\ text_segment' =
         [text_segment EXCEPT !.position =
            IF GST_CLOCK_TIME_IS_VALID(returned'.duration)
              THEN returned'.start + returned'.duration
            ELSE returned'.start]
    /\ waiting' = {}

\* the video thread, which waited for a text buffer, takes the lock again right
\* after a GAP: the slot is still empty and nothing else keeps video_chain from
\* looking at the text segment
VideoResumesAfterGap ==
  /\ returned.fn = "text_event" /\ returned.type = "GAP"
  /\ vpc = "wait" /\ VideoChainLoopTaken
  /\ text_buffer = NULL /\ text_linked /\ ~silent
  /\ ~video_flushing /\ ~video_eos

\* video_chain pushes its buffer unmodified and does not wait again
PushedUnmodifiedWithoutWaiting ==
  /\ returned'.fn = "gst_pad_push" /\ returned'.at = "no text"
  /\ out' = Append(out, [vid |-> vbuf.id, overlay |-> NULL])
  /\ "video" \notin waiting'

\* C28 (as stated): a GAP stores nothing, sets the text position to the end of
\* the gap and wakes the waiters; the video thread that waited for a text
\* buffer and whose buffer starts before the new position then pushes the
\* buffer unmodified instead of waiting again.
C28_GapReleasesEarlierVideo ==
  [][ /\ GapMovesPositionAndWakes
      /\ (VideoResumesAfterGap /\ vbuf.clip_start < text_segment.position) =>
           PushedUnmodifiedWithoutWaiting ]_vars

\* the running times video_chain compares when no text buffer is queued
VideoRunningTimeAtStart ==
  gst_segment_to_running_time(segment, vbuf.clip_start)
TextPositionRunningTime ==
  gst_segment_to_running_time(text_segment, text_segment.position)

\* C28 (amended): a GAP stores nothing, sets the text position to the end of
\* the gap and wakes the waiters; the video thread that waited for a text
\* buffer then pushes its buffer unmodified instead of waiting again when the
\* new position lies inside the text segment and the running time of the start
\* of the video buffer is before the running time of the new position.
C28_GapReleasesVideoEarlierInRunningTime ==
  [][ /\ GapMovesPositionAndWakes
      /\ ( /\ VideoResumesAfterGap
           /\ GST_CLOCK_TIME_IS_VALID(TextPositionRunningTime)
           /\ VideoRunningTimeAtStart < TextPositionRunningTime ) =>
           PushedUnmodifiedWithoutWaiting ]_vars

\* the video thread waits for a text buffer and a GAP has just woken it, with
\* the text position moved past the start of the video buffer in running time
C28_Witness ==
  /\ returned.fn = "text_event" /\ returned.type = "GAP"
  /\ vpc = "wait" /\ "video" \notin waiting
  /\ text_buffer = NULL /\ text_linked /\ ~silent /\ wait_text /\ ~text_eos
  /\ ~video_flushing /\ ~video_eos
  /\ GST_CLOCK_TIME_IS_VALID(TextPositionRunningTime)
  /\ VideoRunningTimeAtStart < TextPositionRunningTime

\* gst_audio_converter_samples has returned
ConverterSamplesReturned == call.fn = "audio_converter" /\ call.phase = "done"

\* the frames gst_audio_converter_samples can convert
ConvertibleFrames == Min(call.in_samples, call.out_samples)

\* C29: gst_audio_converter_samples returns TRUE and reports in_consumed =
\* out_produced = MIN (in_samples, out_samples); when that is 0 it runs no
\* make_func of the chains and leaves out as it was.
C29_ReportsMinOfSamples ==
  [][ ConverterSamplesReturned' =>
        /\ call'.ret = TRUE
        /\ call'.in_consumed = ConvertibleFrames
        /\ call'.out_produced = ConvertibleFrames
        /\ ConvertibleFrames = 0 =>
             /\ call'.in_consumed = 0 /\ call'.out_produced = 0
             /\ call'.steps = <<>>
             /\ call'.out_data = call.out_data ]_vars

\* a converter that is not in passthrough got frames on one side and none on
\* the other, and has reported 0 and 0
C29_Witness ==
  /\ ConverterSamplesReturned /\ ~call.convert.passthrough
  /\ call.in_samples > 0 /\ call.out_samples = 0
  /\ call.in_consumed = 0 /\ call.out_produced = 0

\* the frames of every block of out are the frames of in, byte for byte
FramesCopied(frames) ==
  \A i \in 1 .. Len(call.out_data) :
    \A k \in 1 .. frames * call.out.bpf : call.out_data[i][k] = call.in_data[i][k]

\* C30: in passthrough gst_audio_converter_samples copies MIN (in_samples,
\* out_samples) frames: every byte of these frames (frames times the bytes per
\* frame) in every block of out equals the byte of in.
C30_PassthroughCopiesFrames ==
  (ConverterSamplesReturned /\ call.convert.passthrough) =>
    FramesCopied(ConvertibleFrames)

\* the video thread is in the wait of video_chain with video_flushing set; the
\* text thread is in the wait of text_chain with text_flushing set
VideoBlockedWhileFlushing == vpc = "wait" /\ video_flushing
TextBlockedWhileFlushing == tpc = "wait" /\ text_flushing

\* video_chain, text_chain has returned GST_FLOW_FLUSHING
VideoChainReturnedFlushing ==
  returned.fn = "video_chain" /\ returned.ret = "FLUSHING" /\ vpc = "idle"
TextChainReturnedFlushing ==
  returned.fn = "text_chain" /\ returned.ret = "FLUSHING" /\ tpc = "idle"

\* C31: a FLUSH_START of the video pad that finds the video thread waiting for
\* a text buffer sets video_flushing and wakes it; the woken thread goes back to
\* wait_for_text_buf, returns GST_FLOW_FLUSHING, pushes nothing and leaves
\* text_buffer as it is. A FLUSH_START of the text pad that finds the text
\* thread waiting in text_chain sets text_flushing and wakes it; the woken
\* thread returns GST_FLOW_FLUSHING, releases its buffer and stores nothing.
\* Both returns happen eventually when woken threads get to run.
C31_FlushStartEndsWaitOfItsPad ==
  /\ [][ /\ (VideoFlushStart /\ vpc = "wait") =>
              (video_flushing' /\ "video" \notin waiting' /\ vpc' = "wait")
         /\ (VideoChainWoken /\ video_flushing) =>
              /\ VideoChainWokenReturnsFlushing
              /\ UNCHANGED <<text_buffer, unrefs, render>>
         /\ (TextFlushStart /\ tpc = "wait") =>
              (text_flushing' /\ "text" \notin waiting' /\ tpc' = "wait")
         /\ (TextChainWoken /\ text_flushing) =>
              /\ TextChainWokenReturnsFlushing
              /\ unrefs' = [unrefs EXCEPT ![tbuf.buffer.id] = 1] ]_vars
  /\ (VideoBlockedWhileFlushing ~> VideoChainReturnedFlushing)
  /\ (TextBlockedWhileFlushing ~> TextChainReturnedFlushing)

\* the FLUSH_START of the video pad has just woken the video thread, which
\* waited for a text buffer with the slot empty
C31_Witness ==
  /\ returned.fn = "video_event" /\ returned.type = "FLUSH_START"
  /\ vpc = "wait" /\ "video" \notin waiting /\ video_flushing
  /\ text_buffer = NULL /\ ~text_flushing

\* the thread is blocked in g_cond_wait and no wake-up has reached it
VideoInCondWait == vpc = "wait" /\ "video" \in waiting
TextInCondWait == tpc = "wait" /\ "text" \in waiting

\* C32: the video thread and the text thread are never both blocked in
\* g_cond_wait: video_chain enters the wait only with text_buffer empty,
\* text_chain only with text_buffer occupied, and every step that fills or
\* empties text_buffer broadcasts, so that no thread stays blocked across it.
C32_NeverBothInCondWait ==
  /\ [](~(VideoInCondWait /\ TextInCondWait))
  /\ [][ /\ (~VideoInCondWait /\ VideoInCondWait') => text_buffer = NULL
         /\ (~TextInCondWait /\ TextInCondWait') => text_buffer # NULL
         /\ text_buffer' # text_buffer =>
              /\ waiting' = {}
              /\ "text_buffer" \notin unlocked'
              /\ \/ returned'.fn = "text_chain" /\ returned'.stored
                 \/ PopTextCalled ]_vars

\* the text thread is blocked behind a queued buffer while the video thread
\* has been woken out of its wait and has not run yet
C32_Witness ==
  /\ TextInCondWait /\ text_buffer # NULL
  /\ vpc = "wait" /\ "video" \notin waiting

\* the step in which video_chain, back from push_frame, takes the lock and
\* calls pop_text on the text buffer it has displayed
VideoChainPopsAfterPush == vpc = "pop" /\ vpc' # "pop"

\* C33: the text buffer video_chain removes with the pop_text that follows
\* push_frame is the text buffer it has compared with the video buffer and
\* rendered, whatever the text pad did while the lock was released.
C33_PopsTheDisplayedBuffer ==
  [][ (VideoChainPopsAfterPush /\ text_buffer # NULL) =>
        text_buffer.id = vbuf.displayed ]_vars

\* the step is a call of gst_base_text_overlay_get_property
GetPropertyCalled == returned'.fn = "get_property"

\* C34: get_property leaves need_render and every other field of the overlay
\* as it is, so that reading a property between two video buffers does not make
\* render_text render again; need_render goes from clear to set only in
\* set_property, in setcaps on a size change and when text_chain stores a buffer.
C34_GetPropertyChangesNothing ==
  [][ /\ GetPropertyCalled =>
           UNCHANGED <<shared, elem_state, waiting, unrefs, out, tpc, tbuf, vpc,
                       vbuf>>
      /\ (~need_render /\ need_render' /\ ~GetPropertyCalled) =>
           StyleOrContentChanged ]_vars

\* the video buffer starts before the video segment and was clipped to it
VideoBufferClippedAtStart == vbuf.start < vbuf.clip_start

\* C35: the interval video_chain compares with the queued text buffer is the
\* running time of the interval of the video buffer after clipping to the video
\* segment; for a video buffer that starts before the segment and was clipped,
\* the start of that interval is a valid time, and a text buffer whose running
\* interval overlaps it is not popped as too old.
C35_ComparesClippedRunningInterval ==
  [][ /\ (VideoChainFindsText /\ VideoBufferClippedAtStart) =>
           /\ vid_running_time = RunningVs
           /\ GST_CLOCK_TIME_IS_VALID(vid_running_time)
      /\ ( /\ VideoChainComparesText /\ VideoBufferClippedAtStart
           /\ RunningTe(text_buffer) > RunningVs
           /\ RunningTs(text_buffer) < RunningVe ) =>
           ~(returned'.fn = "pop_text" /\ returned'.at = "too old") ]_vars

\* a step of gst_base_text_overlay_text_pad_unlink
TextPadUnlinked == returned'.fn = "text_pad_unlink"

\* the text pad was unlinked and the video thread is still blocked in g_cond_wait
VideoWaitsForUnlinkedText == VideoInCondWait /\ ~text_linked

\* C36: text_pad_unlink that finds the video thread blocked in
\* GST_BASE_TEXT_OVERLAY_WAIT wakes it, and the video thread then leaves the
\* wait and handles its buffer without a text pad, with no further event or
\* buffer needed to wake it.
C36_UnlinkWakesWaitingVideo ==
  /\ [][ (TextPadUnlinked /\ VideoInCondWait) => "video" \notin waiting' ]_vars
  /\ (VideoWaitsForUnlinkedText ~> ~VideoInCondWait)

\* the video thread is inside video_chain
VideoChainRunning == vpc # "idle"

\* the text stream has ended, or the video pad is flushing
TextEndedOrVideoFlushing == text_eos \/ video_flushing

\* the text stream has ended or the text pad is flushing
TextEndedOrTextFlushing == text_eos \/ text_flushing

\* a pass of video_chain from wait_for_text_buf leaves the loop, blocks in
\* GST_BASE_TEXT_OVERLAY_WAIT, or pops the queued text buffer as too old
LoopPassMakesProgress ==
  VideoChainLoopTaken =>
    \/ vpc' \in {"idle", "pop", "position"}
    \/ vpc' = "wait" /\ "video" \in waiting' /\ text_buffer = NULL
    \/ /\ vpc' = "loop"
       /\ text_buffer # NULL /\ text_buffer' = NULL
       /\ returned'.fn = "pop_text" /\ returned'.at = "too old"

\* C37 as stated: once the text stream has reached EOS or the text pad is
\* flushed, a video_chain call in progress returns.
C37_ReturnsAfterTextEosOrTextFlush ==
  /\ [][LoopPassMakesProgress]_vars
  /\ ((VideoChainRunning /\ TextEndedOrTextFlushing)
        ~> (~VideoChainRunning \/ ~TextEndedOrTextFlushing))

\* C37 (amended): every pass of video_chain from wait_for_text_buf returns,
\* waits with no text buffer queued, or pops one too old text buffer; and once
\* the text stream has reached EOS, or the video pad is flushing, a video_chain
\* call in progress returns (unless text_eos is cleared again by a later
\* SEGMENT or FLUSH_STOP of the text pad).
C37_ReturnsAfterTextEosOrVideoFlush ==
  /\ [][LoopPassMakesProgress]_vars
  /\ ((VideoChainRunning /\ TextEndedOrVideoFlushing)
        ~> (~VideoChainRunning \/ ~TextEndedOrVideoFlushing))

\* video_chain has pushed its buffer and returned with the text stream at EOS,
\* wait-text set and no text buffer queued
C37_Witness ==
  /\ returned.fn = "video_chain" /\ returned.ret = "OK"
  /\ text_eos /\ wait_text /\ text_linked /\ ~silent /\ text_buffer = NULL
  /\ text_segment.format = "TIME"
  /\ text_segment.position <= segment.position

\* text_chain is blocked, in or just out of g_cond_wait, behind a queued buffer
TextChainBlocked == tpc = "wait"

\* text_chain has stored its buffer and returned
TextChainStoredAndReturned ==
  tpc = "idle" /\ returned.fn = "text_chain" /\ returned.ret = "OK"

\* C38: while video buffers with strictly increasing timestamps keep arriving
\* on an overlay with the text pad linked, with no flush and no state change,
\* a text_chain call blocked behind the queued text buffer gets to store its
\* buffer and returns, whatever the properties silent and wait-text are.
C38_BlockedTextChainStores == TextChainBlocked ~> ~TextChainBlocked

\* the element is going to READY or is in READY
GoingToReadyOrReady == elem_state \in {"PAUSED_TO_READY", "READY"}

\* both flushing flags are set and no text buffer is queued
FlushedAndEmpty == text_flushing /\ video_flushing /\ text_buffer = NULL

\* text_chain, called or woken, returns FLUSHING and stores nothing
TextChainStepReturnsFlushing ==
  (TextChainCalled \/ TextChainWoken) => TextChainWokenReturnsFlushing

\* video_chain, taking the lock at wait_for_text_buf, returns FLUSHING and
\* pushes nothing
VideoChainStepReturnsFlushing ==
  VideoChainLoopTaken => VideoChainWokenReturnsFlushing

\* C39: PAUSED_TO_READY sets both flushing flags and empties text_buffer, and
\* they stay so until the next READY_TO_PAUSED, so that in between text_chain
\* and video_chain return FLUSHING, store nothing and push nothing;
\* READY_TO_PAUSED clears both flushing flags and both eos flags and resets
\* both segments.
C39_FlushedFromReadyUntilPaused ==
  [][ /\ PausedToReady => FlushedAndEmpty'
      /\ (GoingToReadyOrReady /\ FlushedAndEmpty /\ ~ReadyToPaused) =>
           FlushedAndEmpty'
      /\ (GoingToReadyOrReady /\ elem_state' # "PAUSED") =>
           /\ TextChainStepReturnsFlushing
           /\ VideoChainStepReturnsFlushing
      /\ ReadyToPaused =>
           /\ ~text_flushing' /\ ~video_flushing' /\ ~text_eos' /\ ~video_eos'
           /\ segment' = InitialTimeSegment
           /\ text_segment' = InitialTimeSegment ]_vars

\* gst_audio_converter_new has returned the converter
ConverterBuilt == call.fn = "audio_converter" /\ call.phase \in {"samples", "done"}

\* g_assert (out->finfo->unpack_format == format) of chain_pack
chain_pack_assertion(convert) ==
  convert.out.finfo.unpack_format = convert.pack_format

\* the make_func of the chains gst_audio_converter_new is to build for formats
\* in_info and out_info
ChainsToBuild(in_info, out_info, mix_passthrough) ==
  <<"do_unpack">>
    \o (IF in_info.integer /\ ~out_info.integer THEN <<"do_convert_in">> ELSE <<>>)
    \o (IF ~mix_passthrough THEN <<"do_mix">> ELSE <<>>)
    \o (IF ~in_info.integer /\ out_info.integer THEN <<"do_convert_out">> ELSE <<>>)
    \o (IF out_info.integer /\ out_info.depth < 32 THEN <<"do_quantize">> ELSE <<>>)

\* C40: for every input and output format, integer or float, the converter
\* gst_audio_converter_new builds has the chains unpack, convert-in only from
\* integer to float, mix unless the mix is passthrough, convert-out only from
\* float to integer, quantize only for integer output of depth below 32, and
\* chain_pack is entered with current_format equal to the unpack format of the
\* output format: its assertion holds.
C40_PackAssertionHolds ==
  ConverterBuilt =>
    /\ chain_pack_assertion(call.convert)
    /\ audio_chain_get_samples(call.convert) =
         ChainsToBuild(call.in.finfo, call.out.finfo, call.convert.mix_passthrough)
    /\ call.convert.current_format = call.out.finfo.format

\* a converter from F32 to S16 was built: chain_pack was entered after
\* convert-out and quantize
C40_Witness ==
  /\ ConverterBuilt
  /\ call.in.finfo.format = "F32" /\ call.out.finfo.format = "S16"
  /\ call.convert.pack_format = "S32"

====
